---- MODULE Spec2Model ----
(***************************************************************************)
(* The OCR orchestration of WaraqStation's lecture package:               *)
(*   utils/advanced-arabic-ocr.ts   performAdvancedArabicOCR,             *)
(*                                  performMultiVariantArabicOCR,         *)
(*                                  performSingleOCRAttempt               *)
(*   utils/arabic-ocr-fallback.ts   tryMultiLanguageOCR,                  *)
(*                                  tryDifferentOEModes,                  *)
(*                                  performComprehensiveArabicOCR         *)
(*   extractors/img.extractor.ts    extractTextFromImage (both the        *)
(*                                  revision of lines 347-396 and the     *)
(*                                  revision of lines 423-482),           *)
(*                                  performAdvancedOCR, performFallbackOCR*)
(*                                  createOCRWorker, performStandardOCR   *)
(*                                                                         *)
(* The code is async and single threaded: every `await` is a suspension   *)
(* point, and the code between two awaits runs atomically.  One action of *)
(* the model is the resumption of one await: the external call's outcome  *)
(* (drawn with \E) and all the code that runs up to the next await.       *)
(* The external engine (tesseract.js) and the raster library (sharp) are  *)
(* the environment: each call may resolve or reject.                      *)
(***************************************************************************)
EXTENDS Integers, Sequences, FiniteSets, TLC

(***************************************************************************)
(* Program constants.                                                      *)
(***************************************************************************)
\* advanced-arabic-ocr.ts:203  maxAttempts = 3
DefaultMaxAttempts == 3
\* advanced-arabic-ocr.ts:204  minConfidenceThreshold = 75
DefaultAdvancedThreshold == 75
\* advanced-arabic-ocr.ts:504  minConfidenceThreshold = 70
DefaultMultiVariantThreshold == 70
\* img.extractor.ts:444-445  maxAttempts: 3, minConfidenceThreshold: 75
ExtractMaxAttempts == 3
ExtractThreshold == 75
\* img.extractor.ts:449  advancedResult.confidence >= 75
ExtractAcceptConfidence == 75
\* img.extractor.ts:285  confidence > 85
AdvancedOCRBreakConfidence == 85
\* img.extractor.ts:334  confidence > 60
FallbackOCRBreakConfidence == 60
\* img.extractor.ts:360  advancedResult.confidence >= 70
LegacyAcceptConfidence == 70

\* advanced-arabic-ocr.ts:28-73
PREPROCESSING_STRATEGIES ==
    << "high_contrast_binarized", "adaptive_threshold",
       "noise_reduced_enhanced", "minimal_processing" >>
\* advanced-arabic-ocr.ts:286
psmModes == << "psm_AUTO", "psm_SINGLE_BLOCK", "psm_SINGLE_COLUMN", "psm_SPARSE_TEXT" >>
\* arabic-ocr-fallback.ts:26-30
languageCombinations == << <<"ara">>, <<"ara", "eng">>, <<"eng", "ara">> >>
\* arabic-ocr-fallback.ts:102-106
oemModes == << "oem_lstm_only", "oem_combined", "oem_default" >>
\* img.extractor.ts:252-254
legacyVariants == << "original", "denoised", "enhanced_upscaled", "high_contrast" >>
\* img.extractor.ts:303-307
legacyLanguageCombinations == << <<"ara">>, <<"ara", "eng">>, <<"eng">> >>

(***************************************************************************)
(* Bounds of the model and the inputs that are enumerated.                 *)
(***************************************************************************)
\* options.maxAttempts ranges over 0..MaxAttemptsOption (one more than the
\* number of preprocessing strategies, so that the min() of line 221 matters)
MaxAttemptsOption == 5
\* how many worker.terminate() calls of one run the environment lets reject
MaxTerminateFaults == 1
\* the length up to which every text is given to scoreArabicTextQuality
MaxScoredLen == 3
\* how many times a pattern is repeated in a text that is scored
MaxRepeat == 21
\* the length up to which every text is cleaned twice
MaxCleanedLen == 5
\* the length up to which every text is recognized while a step throws
MaxRecognizedLen == 3
\* the longest text whose digits are corrected
MaxDigitLen == 3
\* the longest text that is normalized for search
MaxSearchLen == 3
\* the longest word that is indexed and searched
MaxWordLen == 3
\* the longest query
MaxQueryLen == 4

\* an optional field of an options object: <<>> when absent, <<v>> when given
Absent == << >>
Given(v) == << v >>
OrDefault(field, default) == IF field = Absent THEN default ELSE field[1]

\* what the engine reports as data.confidence: no value at all, or a number.
\* 85 is a threshold itself, 60 is FallbackOCRBreakConfidence, 120 is a
\* report outside the documented range.
EngineNumbers == {0, 60, 85, 120}
EngineReports == {<<"undefined", 0>>} \cup {<<"number", n>> : n \in EngineNumbers}

\* options.minConfidenceThreshold as given by the caller
ThresholdOptions == {Absent, Given(85)}
\* options.languages / the languages argument
LanguageLists == { <<"ara", "eng">>, <<"eng">> }

OptionsObjects ==
    [ maxAttempts : {Absent} \cup {Given(n) : n \in 0..MaxAttemptsOption},
      minConfidenceThreshold : ThresholdOptions,
      enableAdvancedPreprocessing : {Absent, Given(TRUE), Given(FALSE)} ]

\* performMultiVariantArabicOCR reads languages and minConfidenceThreshold
\* only (line 504); maxAttempts is given or not, the third field is left out
MultiVariantOptions ==
    [ maxAttempts : {Absent, Given(1)},
      minConfidenceThreshold : ThresholdOptions,
      enableAdvancedPreprocessing : {Absent} ]

\* img.extractor.ts:442-447: the options literal of extractTextFromImage
ExtractOptions ==
    [ maxAttempts |-> Given(ExtractMaxAttempts),
      minConfidenceThreshold |-> Given(ExtractThreshold),
      enableAdvancedPreprocessing |-> Given(TRUE) ]

NoOptions ==
    [ maxAttempts |-> Absent, minConfidenceThreshold |-> Absent,
      enableAdvancedPreprocessing |-> Absent ]

EntryPoints == { "performAdvancedArabicOCR", "performMultiVariantArabicOCR",
                 "performComprehensiveArabicOCR", "extractTextFromImage",
                 "extractTextFromImageLegacy" }

(***************************************************************************)
(* Pure helpers, as the code computes them.                                *)
(***************************************************************************)
Min(a, b) == IF a < b THEN a ELSE b
Max(a, b) == IF a > b THEN a ELSE b
Range(seq) == { seq[i] : i \in 1..Len(seq) }

Includes(seq, x) == \E i \in 1..Len(seq) : seq[i] = x

\* `confidence || 0` (advanced-arabic-ocr.ts:401, arabic-ocr-fallback.ts:71,
\* img.extractor.ts:270): undefined, NaN and 0 are falsy
OrZero(report) == IF report[1] = "undefined" \/ report[2] = 0 THEN 0 ELSE report[2]

\* the accumulator's initial value (advanced-arabic-ocr.ts:211-217, 511-517)
InitialResult == [text |-> "", confidence |-> 0, strategy |-> "none"]

\* the text of a recognition is abstracted to the attempt that produced it
AttemptResult(name, report) ==
    [text |-> name, confidence |-> OrZero(report), strategy |-> name]

\* faulty accumulators: one that takes every result, one that takes a tie
AlwaysReplace(best, result) == result
ReplaceOnTie(best, result) == IF result.confidence >= best.confidence THEN result ELSE best
\* a faulty accumulator: any text is taken over the initial, empty one
TakeNonEmpty(best, result) ==
    IF result.confidence > best.confidence \/ best.text = "" THEN result ELSE best
\* if (result.confidence > bestResult.confidence) bestResult = ocrResult
UpdateBest(best, result) == IF result.confidence > best.confidence THEN result ELSE best

\* if (result.confidence >= minConfidenceThreshold) break
MeetsThreshold(confidence, threshold) == confidence >= threshold

\* if (confidence > 85) break   /   if (confidence > 60) break
Exceeds(confidence, limit) == confidence > limit

VARIABLES
    entry,          \* the exported function the caller invoked
    languages,      \* its languages argument
    options,        \* the options object handed to the orchestrator
    stage,          \* the loop / function the run is in
    idx,            \* index of the current element of the stage's list
    pc,             \* the await the run is suspended at
    image,          \* the buffer the current attempt hands to the engine
    bestResult,     \* the accumulator of the running loop
    pending,        \* outcome held while worker.terminate() is awaited
    variants,       \* what createImageVariants returned
    allResults,     \* results collected by performComprehensiveArabicOCR
    advancedResult, \* extractTextFromImage: result of the first step
    fallbackResult, \* extractTextFromImage: result of the second step
    outcome,        \* how the entry point ended, and with what
    event,          \* what the last step did to the attempt it resumed
    live,           \* engine workers created and not terminated
    terminateFaults,\* rejected worker.terminate() calls so far
    anyRecognized,  \* some attempt of the run has returned a result
    cancelRequested,\* the caller's cancellation / deadline signal
    call,           \* the pure function under call, "none" in an OCR run
    argument,       \* what it is called with
    returned        \* what it returned, once it has

vars == << entry, languages, options, stage, idx, pc, image, bestResult,
           pending, variants, allResults, advancedResult, fallbackResult,
           outcome, event, live, terminateFaults, anyRecognized,
           cancelRequested, call, argument, returned >>

\* the variables of a call of one of the package's pure functions
callVars == << call, argument, returned >>

\* the destructuring defaults of advanced-arabic-ocr.ts:201-206 and :504
maxAttempts == OrDefault(options.maxAttempts, DefaultMaxAttempts)
enableAdvancedPreprocessing == OrDefault(options.enableAdvancedPreprocessing, TRUE)
AdvancedThreshold == OrDefault(options.minConfidenceThreshold, DefaultAdvancedThreshold)
MultiVariantThreshold ==
    OrDefault(options.minConfidenceThreshold, DefaultMultiVariantThreshold)
\* const isArabicOCR = languages.includes('ara')
isArabicOCR == Includes(languages, "ara")
\* img.extractor.ts:351  lang === 'ara' || lang === 'ar'
isArabic == Includes(languages, "ara") \/ Includes(languages, "ar")


(***************************************************************************)
(* The synchronous code between two awaits.  Run is the part of the state  *)
(* that code reads and writes; each operator below takes the run as the    *)
(* code finds it and gives the run as it stands at the next await (or at   *)
(* the entry point's return / throw).                                      *)
(***************************************************************************)
Run ==
    [ stage |-> stage, idx |-> idx, pc |-> pc, image |-> image,
      bestResult |-> bestResult, variants |-> variants,
      allResults |-> allResults, advancedResult |-> advancedResult,
      fallbackResult |-> fallbackResult, outcome |-> outcome,
      event |-> event ]

NoResult == [text |-> "", confidence |-> 0, strategy |-> "unset"]
NoFallback == [text |-> "", confidence |-> 0, method |-> "unset", success |-> FALSE]
Running == [kind |-> "running", text |-> "", source |-> "none"]

\* suspend at the await `p` of element `i` of stage `st`
Goto(r, st, i, p) == [r EXCEPT !.stage = st, !.idx = i, !.pc = p]

\* a new attempt (one loop iteration, one engine invocation) begins
BeginAttempt(r, st, i, p) == [Goto(r, st, i, p) EXCEPT !.image = "raw"]

\* the entry point returns `text` to its caller; its locals go out of scope
Return(r, text, source) ==
    [r EXCEPT !.stage = "none", !.idx = 0, !.pc = "done", !.image = "raw",
              !.variants = << >>, !.allResults = << >>,
              !.outcome = [kind |-> "returned", text |-> text, source |-> source]]

\* an exception leaves the entry point
Throw(r) ==
    [r EXCEPT !.stage = "none", !.idx = 0, !.pc = "done", !.image = "raw",
              !.variants = << >>, !.allResults = << >>,
              !.outcome = [kind |-> "threw", text |-> "", source |-> "exception"]]

(***************************************************************************)
(* extractTextFromImage, img.extractor.ts:423-482, and what it calls.      *)
(***************************************************************************)
\* performStandardOCR(buffer, languages): const worker = await createWorker(languages)
StartStandardOCR(r) == BeginAttempt(r, "standard", 1, "createWorker")

\* img.extractor.ts:459-481, with fallbackResult and advancedResult at hand
\* a faulty selection: the fallback result wins a tie
PreferFallback(r) ==
    IF r.fallbackResult.success
       /\ r.fallbackResult.confidence >= r.advancedResult.confidence
    THEN Return(r, r.fallbackResult.text, "fallback")
    ELSE IF r.advancedResult.confidence > 0
    THEN Return(r, r.advancedResult.text, "advanced")
    ELSE IF r.fallbackResult.success
    THEN Return(r, r.fallbackResult.text, "fallback")
    ELSE StartStandardOCR(r)
ChooseResult(r) ==
    IF r.fallbackResult.success
       /\ r.fallbackResult.confidence > r.advancedResult.confidence
    THEN Return(r, r.fallbackResult.text, "fallback")
    ELSE IF r.advancedResult.confidence > 0
    THEN Return(r, r.advancedResult.text, "advanced")
    ELSE IF r.fallbackResult.success
    THEN Return(r, r.fallbackResult.text, "fallback")
    ELSE StartStandardOCR(r)

\* Array.prototype.sort is stable: an element goes behind every element the
\* comparator (b.confidence - a.confidence) does not put it in front of
RECURSIVE InsertSorted(_, _)
InsertSorted(sorted, x) ==
    IF sorted = << >> THEN << x >>
    ELSE IF x.confidence > Head(sorted).confidence
         THEN << x >> \o sorted
         ELSE << Head(sorted) >> \o InsertSorted(Tail(sorted), x)

\* successfulResults.sort((a, b) => b.confidence - a.confidence)
RECURSIVE SortByConfidence(_)
SortByConfidence(results) ==
    IF results = << >> THEN << >>
    ELSE CHOOSE out \in
             { InsertSorted(front, results[Len(results)]) :
                 front \in {SortByConfidence(SubSeq(results, 1, Len(results) - 1))} } :
             TRUE

\* a faulty filter: a completed attempt counts whatever its confidence
CompletedOnly(x) == x.success
IsSuccessful(x) == x.success /\ x.confidence > 0

\* arabic-ocr-fallback.ts:178-195
BestFallback(results) ==
    LET successfulResults == SelectSeq(results, IsSuccessful) IN
    IF Len(successfulResults) = 0
    THEN [text |-> "", confidence |-> 0, method |-> "all_failed", success |-> FALSE]
    ELSE SortByConfidence(successfulResults)[1]

\* performComprehensiveArabicOCR returns (arabic-ocr-fallback.ts:178-195), to
\* its caller or to extractTextFromImage (img.extractor.ts:457)
SelectBest(r) ==
    LET fb == BestFallback(r.allResults) IN
    IF entry = "performComprehensiveArabicOCR"
    THEN Return([r EXCEPT !.fallbackResult = fb], fb.text, fb.method)
    ELSE ChooseResult([r EXCEPT !.fallbackResult = fb, !.allResults = << >>])

\* arabic-ocr-fallback.ts:108: the next engine mode, or the selection
OemStage(r, i) ==
    IF i <= Len(oemModes)
    THEN BeginAttempt(r, "oem", i, "createWorker")
    ELSE SelectBest(r)

\* arabic-ocr-fallback.ts:32: the next language combination, then line 175
LanguageStage(r, i) ==
    IF i <= Len(languageCombinations)
    THEN BeginAttempt(r, "languages", i, "createWorker")
    ELSE OemStage(r, 1)

\* performComprehensiveArabicOCR, arabic-ocr-fallback.ts:166-171
StartComprehensive(r) == LanguageStage([r EXCEPT !.allResults = << >>], 1)

\* img.extractor.ts:449-457
AfterAdvancedResult(r) ==
    IF r.advancedResult.confidence >= ExtractAcceptConfidence
    THEN Return(r, r.advancedResult.text, "advanced")
    ELSE StartComprehensive(r)

(***************************************************************************)
(* performMultiVariantArabicOCR, advanced-arabic-ocr.ts:499-552.           *)
(***************************************************************************)
\* return bestResult (line 551), to the caller or to extractTextFromImage
MultiVariantDone(r) ==
    IF entry = "performMultiVariantArabicOCR"
    THEN Return(r, r.bestResult.text, r.bestResult.strategy)
    ELSE AfterAdvancedResult(
            [r EXCEPT !.advancedResult = r.bestResult, !.variants = << >>])

\* for (const variant of variants)
MultiVariantStage(r, i) ==
    IF i <= Len(r.variants)
    THEN BeginAttempt(r, "multiVariant", i, "createWorker")
    ELSE MultiVariantDone(r)

(***************************************************************************)
(* performAdvancedArabicOCR, advanced-arabic-ocr.ts:197-318.               *)
(***************************************************************************)
\* lines 315-317
AdvancedDone(r) == Return(r, r.bestResult.text, r.bestResult.strategy)

\* lines 288: for (const psm of psmModes)
PsmStage(r, i) ==
    IF i <= Len(psmModes)
    THEN BeginAttempt(r, "psm", i, "createWorker")
    ELSE AdvancedDone(r)

\* line 285: if (bestResult.confidence < minConfidenceThreshold && isArabicOCR)
AfterOriginal(r) ==
    IF r.bestResult.confidence < AdvancedThreshold /\ isArabicOCR
    THEN PsmStage(r, 1)
    ELSE AdvancedDone(r)

\* a faulty second stage: the original image is passed over
SkipOriginal(r) ==
    IF r.bestResult.confidence < AdvancedThreshold /\ isArabicOCR
    THEN PsmStage(r, 1)
    ELSE AdvancedDone(r)
\* line 262: if (bestResult.confidence < minConfidenceThreshold)
AfterVariants(r) ==
    IF r.bestResult.confidence < AdvancedThreshold
    THEN BeginAttempt(r, "original", 1, "createWorker")
    ELSE AfterOriginal(r)

\* a faulty loop: every strategy is tried, whatever maxAttempts says
AllStrategies(r, i) ==
    IF i <= Len(PREPROCESSING_STRATEGIES)
    THEN BeginAttempt(r, "variants", i, "preprocess")
    ELSE AfterVariants(r)
\* line 221: for (i = 0; i < Math.min(maxAttempts, PREPROCESSING_STRATEGIES.length); i++)
VariantStage(r, i) ==
    IF i <= Min(maxAttempts, Len(PREPROCESSING_STRATEGIES))
    THEN BeginAttempt(r, "variants", i, "preprocess")
    ELSE AfterVariants(r)

\* a faulty start: enableAdvancedPreprocessing is not read
IgnoreConfiguration(r) ==
    LET r0 == [r EXCEPT !.bestResult = InitialResult] IN
    IF isArabicOCR
    THEN VariantStage(r0, 1)
    ELSE AfterVariants(r0)
\* lines 211-220
StartAdvanced(r) ==
    LET r0 == [r EXCEPT !.bestResult = InitialResult] IN
    IF enableAdvancedPreprocessing /\ isArabicOCR
    THEN VariantStage(r0, 1)
    ELSE AfterVariants(r0)


\* what the loops of performAdvancedArabicOCR and performMultiVariantArabicOCR
\* do when `await performSingleOCRAttempt(...)` resolves with a result
VariantRecognized(r, report) ==
    LET result == AttemptResult(PREPROCESSING_STRATEGIES[r.idx], report)
        r1 == [r EXCEPT !.bestResult = UpdateBest(@, result), !.event = "recognized"]
    IN  IF MeetsThreshold(result.confidence, AdvancedThreshold)
        THEN AfterVariants(r1)
        ELSE VariantStage(r1, r.idx + 1)

OriginalRecognized(r, report) ==
    LET result == AttemptResult("original", report) IN
    AfterOriginal([r EXCEPT !.bestResult = UpdateBest(@, result),
                            !.event = "recognized"])

PsmRecognized(r, report) ==
    LET result == AttemptResult(psmModes[r.idx], report)
        r1 == [r EXCEPT !.bestResult = UpdateBest(@, result), !.event = "recognized"]
    IN  IF MeetsThreshold(result.confidence, AdvancedThreshold)
        THEN AdvancedDone(r1)
        ELSE PsmStage(r1, r.idx + 1)

MultiVariantRecognized(r, report) ==
    LET result == AttemptResult(r.variants[r.idx], report)
        r1 == [r EXCEPT !.bestResult = UpdateBest(@, result), !.event = "recognized"]
    IN  IF MeetsThreshold(result.confidence, MultiVariantThreshold)
        THEN MultiVariantDone(r1)
        ELSE MultiVariantStage(r1, r.idx + 1)

AttemptRecognized(r, report) ==
    CASE r.stage = "variants" -> VariantRecognized(r, report)
      [] r.stage = "original" -> OriginalRecognized(r, report)
      [] r.stage = "psm" -> PsmRecognized(r, report)
      [] r.stage = "multiVariant" -> MultiVariantRecognized(r, report)

\* faulty catch blocks: one that gives up the run and its result, one that
\* rethrows
AbortOnFailure(r) ==
    LET r1 == [r EXCEPT !.event = "failed", !.bestResult = InitialResult] IN
    IF r.stage = "multiVariant" THEN MultiVariantDone(r1) ELSE AdvancedDone(r1)
RethrowOnFailure(r) == Throw([r EXCEPT !.event = "failed"])
\* the catch blocks of the loops (lines 253-257, 279-281, 309-311, 546-548);
\* what is thrown is an Error or a string, so reading error.message is safe
AttemptFailed(r) ==
    LET r1 == [r EXCEPT !.event = "failed"] IN
    CASE r.stage = "variants" -> VariantStage(r1, r.idx + 1)
      [] r.stage = "original" -> AfterOriginal(r1)
      [] r.stage = "psm" -> PsmStage(r1, r.idx + 1)
      [] r.stage = "multiVariant" -> MultiVariantStage(r1, r.idx + 1)

(***************************************************************************)
(* tryMultiLanguageOCR and tryDifferentOEModes, arabic-ocr-fallback.ts.    *)
(***************************************************************************)
languageMethods == << "languages_ara", "languages_ara_eng", "languages_eng_ara" >>
legacyLanguageMethods == << "languages_ara", "languages_ara_eng", "languages_eng" >>

FallbackMethod(r) ==
    IF r.stage = "languages" THEN languageMethods[r.idx] ELSE oemModes[r.idx]

FallbackNext(r) ==
    IF r.stage = "languages"
    THEN LanguageStage(r, r.idx + 1)
    ELSE OemStage(r, r.idx + 1)

\* results.push({ text, confidence: confidence || 0, method, success: true })
FallbackRecognized(r, report) ==
    FallbackNext([r EXCEPT
        !.allResults = Append(@, [text |-> FallbackMethod(r),
                                  confidence |-> OrZero(report),
                                  method |-> FallbackMethod(r),
                                  success |-> TRUE]),
        !.event = "recognized"])

\* catch: results.push({ text: '', confidence: 0, method, success: false })
FallbackFailed(r) ==
    FallbackNext([r EXCEPT
        !.allResults = Append(@, [text |-> "", confidence |-> 0,
                                  method |-> FallbackMethod(r),
                                  success |-> FALSE]),
        !.event = "failed"])

(***************************************************************************)
(* extractTextFromImage of img.extractor.ts:347-396 with performAdvancedOCR*)
(* (251-296) and performFallbackOCR (299-345).                             *)
(***************************************************************************)
\* lines 369-374
LegacyChoose(r) ==
    IF r.bestResult.confidence > r.advancedResult.confidence
    THEN Return(r, r.bestResult.text, "fallback")
    ELSE Return(r, r.advancedResult.text, "advanced")

\* line 311: for (const languages of languageCombinations)
LegacyLanguageStage(r, i) ==
    IF i <= Len(legacyLanguageCombinations)
    THEN BeginAttempt(r, "legacyLanguages", i, "createWorker")
    ELSE LegacyChoose(r)

\* lines 358-367
LegacyAfterAdvanced(r) ==
    IF r.bestResult.confidence >= LegacyAcceptConfidence
    THEN Return(r, r.bestResult.text, "advanced")
    ELSE LegacyLanguageStage(
            [r EXCEPT !.advancedResult = r.bestResult,
                      !.bestResult = InitialResult], 1)

\* line 260: for (const variant of variants)
LegacyVariantStage(r, i) ==
    IF i <= Len(legacyVariants)
    THEN BeginAttempt(r, "legacyVariants", i, "preprocess")
    ELSE LegacyAfterAdvanced(r)

\* the code after `await worker.terminate()` resolves
LegacyRecognized(r, report) ==
    LET name == IF r.stage = "legacyVariants" THEN legacyVariants[r.idx]
                ELSE IF r.stage = "legacyLanguages" THEN legacyLanguageMethods[r.idx]
                ELSE r.stage
        result == AttemptResult(name, report)
        r1 == [r EXCEPT !.bestResult = UpdateBest(@, result), !.event = "recognized"]
    IN  CASE r.stage = "legacyVariants" ->
                IF Exceeds(result.confidence, AdvancedOCRBreakConfidence)
                THEN LegacyAfterAdvanced(r1)
                ELSE LegacyVariantStage(r1, r.idx + 1)
          [] r.stage = "legacyLanguages" ->
                IF Exceeds(result.confidence, FallbackOCRBreakConfidence)
                THEN LegacyChoose(r1)
                ELSE LegacyLanguageStage(r1, r.idx + 1)
          [] r.stage = "legacyStandard" ->
                Return([r EXCEPT !.event = "recognized"], name, "standard")
          [] r.stage = "legacyFinal" ->
                Return([r EXCEPT !.event = "recognized"], name, "final")

\* the catch blocks: lines 289-292, 338-341, 382-390, 391-394
LegacyFailed(r) ==
    LET r1 == [r EXCEPT !.event = "failed"] IN
    CASE r.stage = "legacyVariants" -> LegacyVariantStage(r1, r.idx + 1)
      [] r.stage = "legacyLanguages" -> LegacyLanguageStage(r1, r.idx + 1)
      [] r.stage = "legacyStandard" -> BeginAttempt(r1, "legacyFinal", 1, "createWorker")
      [] r.stage = "legacyFinal" -> Return(r1, "", "empty")


(***************************************************************************)
(* The state machine.                                                      *)
(***************************************************************************)
NoPending == [kind |-> "none", report |-> <<"undefined", 0>>]
PendingReturn(report) == [kind |-> "return", report |-> report]
PendingThrow == [kind |-> "throw", report |-> <<"undefined", 0>>]

Init ==
    /\ entry \in EntryPoints
    /\ languages \in
          IF entry = "performComprehensiveArabicOCR"
          THEN {<<"ara", "eng">>}
          ELSE LanguageLists
    /\ options \in
          CASE entry = "performAdvancedArabicOCR" -> OptionsObjects
            [] entry = "performMultiVariantArabicOCR" -> MultiVariantOptions
            [] entry = "extractTextFromImage" -> {ExtractOptions}
            [] OTHER -> {NoOptions}
    /\ stage = "none"
    /\ idx = 0
    /\ pc = "start"
    /\ image = "raw"
    /\ bestResult = NoResult
    /\ pending = NoPending
    /\ variants = << >>
    /\ allResults = << >>
    /\ advancedResult = NoResult
    /\ fallbackResult = NoFallback
    /\ outcome = Running
    /\ event = "none"
    /\ live = 0
    /\ terminateFaults = 0
    /\ anyRecognized = FALSE
    /\ cancelRequested = FALSE
    /\ call = "none"
    /\ argument = << >>
    /\ returned = << >>

\* the run continues as the synchronous code left it
Apply(r) ==
    \E next \in {r} :
        /\ stage' = next.stage
        /\ idx' = next.idx
        /\ pc' = next.pc
        /\ image' = next.image
        /\ bestResult' = next.bestResult
        /\ variants' = next.variants
        /\ allResults' = next.allResults
        /\ advancedResult' = next.advancedResult
        /\ fallbackResult' = next.fallbackResult
        /\ outcome' = next.outcome
        /\ event' = next.event

\* the attempt goes on to its next await
Step(p) == Apply([Run EXCEPT !.pc = p, !.event = "none"])

Config == << entry, languages, options >>

\* an attempt's await resolved with a result (held) or not
Noted(held) == anyRecognized' = (anyRecognized \/ held.kind = "return")

\* the caller invokes the entry point; it runs up to its first await
Start ==
    /\ pc = "start"
    /\ Apply(CASE entry = "performAdvancedArabicOCR" -> StartAdvanced(Run)
               [] entry = "performMultiVariantArabicOCR" ->
                      Goto(Run, "multiVariant", 0, "createImageVariants")
               [] entry = "performComprehensiveArabicOCR" -> StartComprehensive(Run)
               [] entry = "extractTextFromImage" ->
                      IF isArabicOCR
                      THEN Goto(Run, "extract", 0, "validateImage")
                      ELSE StartStandardOCR(Run)
               [] entry = "extractTextFromImageLegacy" ->
                      IF isArabic
                      THEN LegacyVariantStage(
                              [Run EXCEPT !.bestResult = InitialResult], 1)
                      ELSE BeginAttempt(Run, "legacyStandard", 1, "createWorker"))
    /\ UNCHANGED << callVars, Config, pending, live, terminateFaults, anyRecognized, cancelRequested >>

\* await validateImageForOCR(buffer): it catches its own errors, and the
\* verdict is only logged
ValidateImage ==
    /\ pc = "validateImage"
    /\ Apply(Goto(Run, "multiVariant", 0, "createImageVariants"))
    /\ UNCHANGED << callVars, Config, pending, live, terminateFaults, anyRecognized, cancelRequested >>

\* await createImageVariants(buffer): 'original' always, each other variant
\* unless its transform rejects or the image is too small for it
CreateImageVariants ==
    /\ pc = "createImageVariants"
    /\ \E hc, dn, en \in BOOLEAN :
          LET made == << "original" >>
                      \o (IF hc THEN << "high_contrast" >> ELSE << >>)
                      \o (IF dn THEN << "denoised" >> ELSE << >>)
                      \o (IF en THEN << "enhanced_upscaled" >> ELSE << >>)
          IN Apply(MultiVariantStage(
                      [Run EXCEPT !.variants = made, !.bestResult = InitialResult,
                                  !.event = "none"], 1))
    /\ UNCHANGED << callVars, Config, pending, live, terminateFaults, anyRecognized, cancelRequested >>

\* await advancedArabicPreprocessing(buffer, strategy.name)
AdvancedPreprocess ==
    /\ pc = "preprocess" /\ stage = "variants"
    /\ \E result \in {"processed", "unchanged", "rejected"} :
          CASE result = "processed" ->
                  Apply([Run EXCEPT !.pc = "createWorker", !.event = "none",
                                    !.image = "preprocessed"])
            [] result = "unchanged" -> Step("createWorker")
            [] result = "rejected" -> Apply(AttemptFailed(Run))
    /\ UNCHANGED << callVars, Config, pending, live, terminateFaults, anyRecognized, cancelRequested >>

\* await preprocessImage(buffer, variant): returns the original buffer when
\* a transform fails
LegacyPreprocess ==
    /\ pc = "preprocess" /\ stage = "legacyVariants"
    /\ \E ok \in BOOLEAN :
          Apply([Run EXCEPT !.pc = "createWorker", !.event = "none",
                            !.image = IF ok THEN "preprocessed" ELSE "raw"])
    /\ UNCHANGED << callVars, Config, pending, live, terminateFaults, anyRecognized, cancelRequested >>

(***************************************************************************)
(* performSingleOCRAttempt, advanced-arabic-ocr.ts:323-412.                *)
(***************************************************************************)
SingleStages == {"variants", "original", "psm", "multiVariant"}

SingleCreateWorker ==
    /\ pc = "createWorker" /\ stage \in SingleStages
    /\ \E ok \in BOOLEAN :
          IF ok THEN /\ live' = live + 1
                     /\ Step("setParameters")
                ELSE /\ live' = live
                     /\ Apply(AttemptFailed(Run))
    /\ UNCHANGED << callVars, Config, pending, terminateFaults, anyRecognized, cancelRequested >>

SingleSetParameters ==
    /\ pc = "setParameters" /\ stage \in SingleStages
    /\ \E ok \in BOOLEAN :
          IF ok THEN /\ Step("recognize")
                     /\ pending' = pending
                ELSE /\ Step("terminate")
                     /\ pending' = PendingThrow
    /\ UNCHANGED << callVars, Config, live, terminateFaults, anyRecognized, cancelRequested >>

SingleRecognize ==
    /\ pc = "recognize" /\ stage \in SingleStages
    /\ \/ \E report \in EngineReports : pending' = PendingReturn(report)
       \/ pending' = PendingThrow
    /\ Step("terminate")
    /\ UNCHANGED << callVars, Config, live, terminateFaults, anyRecognized, cancelRequested >>

\* the finally block: a rejected terminate() is logged and swallowed
SingleFinally(r, held) ==
    IF held.kind = "return" THEN AttemptRecognized(r, held.report) ELSE AttemptFailed(r)

SingleTerminate ==
    /\ pc = "terminate" /\ stage \in SingleStages
    /\ live' = live - 1
    /\ Apply(SingleFinally(Run, pending))
    /\ pending' = NoPending
    /\ Noted(pending)
    /\ UNCHANGED << callVars, Config, terminateFaults, cancelRequested >>

\* a faulty finally block: the rejection of terminate() takes the place of
\* what the attempt had to hand back
TerminateFailureMasks ==
    /\ pc = "terminate" /\ stage \in SingleStages
    /\ terminateFaults < MaxTerminateFaults
    /\ terminateFaults' = terminateFaults + 1
    /\ Apply(AttemptFailed(Run))
    /\ pending' = NoPending
    /\ UNCHANGED << callVars, Config, live, anyRecognized, cancelRequested >>

\* worker.terminate() rejects: the worker is not released
SingleTerminateRejected ==
    /\ pc = "terminate" /\ stage \in SingleStages
    /\ terminateFaults < MaxTerminateFaults
    /\ terminateFaults' = terminateFaults + 1
    /\ Apply(SingleFinally(Run, pending))
    /\ pending' = NoPending
    /\ Noted(pending)
    /\ UNCHANGED << callVars, Config, live, cancelRequested >>


(***************************************************************************)
(* One iteration of tryMultiLanguageOCR (arabic-ocr-fallback.ts:32-87) or  *)
(* of tryDifferentOEModes (108-154): the worker is terminated on the       *)
(* straight path only, the catch block does not release it.                *)
(***************************************************************************)
FallbackStages == {"languages", "oem"}

\* if (languages[0] === 'ara') await worker.setParameters(...)
SetsParameters(st, i) == st = "oem" \/ languageCombinations[i][1] = "ara"

FallbackCreateWorker ==
    /\ pc = "createWorker" /\ stage \in FallbackStages
    /\ \E ok \in BOOLEAN :
          IF ok THEN /\ live' = live + 1
                     /\ Step(IF SetsParameters(stage, idx)
                             THEN "setParameters" ELSE "recognize")
                ELSE /\ live' = live
                     /\ Apply(FallbackFailed(Run))
    /\ UNCHANGED << callVars, Config, pending, terminateFaults, anyRecognized, cancelRequested >>

FallbackSetParameters ==
    /\ pc = "setParameters" /\ stage \in FallbackStages
    /\ \E ok \in BOOLEAN :
          IF ok THEN Step("recognize") ELSE Apply(FallbackFailed(Run))
    /\ UNCHANGED << callVars, Config, pending, live, terminateFaults, anyRecognized, cancelRequested >>

FallbackRecognize ==
    /\ pc = "recognize" /\ stage \in FallbackStages
    /\ \/ \E report \in EngineReports :
             /\ pending' = PendingReturn(report)
             /\ Step("terminate")
       \/ /\ pending' = pending
          /\ Apply(FallbackFailed(Run))
    /\ UNCHANGED << callVars, Config, live, terminateFaults, anyRecognized, cancelRequested >>

FallbackTerminate ==
    /\ pc = "terminate" /\ stage \in FallbackStages
    /\ live' = live - 1
    /\ Apply(FallbackRecognized(Run, pending.report))
    /\ pending' = NoPending
    /\ Noted(pending)
    /\ UNCHANGED << callVars, Config, terminateFaults, cancelRequested >>

(***************************************************************************)
(* createOCRWorker (img.extractor.ts:213-232) and the inline attempts of   *)
(* performAdvancedOCR, performFallbackOCR and extractTextFromImage         *)
(* (347-396).                                                              *)
(***************************************************************************)
LegacyStages == {"legacyVariants", "legacyLanguages", "legacyStandard", "legacyFinal"}

\* createWorker(availableLanguages, OEM.LSTM_ONLY)
LegacyCreateWorker ==
    /\ pc = "createWorker" /\ stage \in LegacyStages
    /\ \E ok \in BOOLEAN :
          IF ok THEN /\ live' = live + 1
                     /\ Step("recognize")
                ELSE /\ live' = live
                     /\ Step("retryCreateWorker")
    /\ UNCHANGED << callVars, Config, pending, terminateFaults, anyRecognized, cancelRequested >>

\* catch: return await createWorker(['eng'], OEM.LSTM_ONLY)
LegacyRetryCreateWorker ==
    /\ pc = "retryCreateWorker" /\ stage \in LegacyStages
    /\ \E ok \in BOOLEAN :
          IF ok THEN /\ live' = live + 1
                     /\ Step("recognize")
                ELSE /\ live' = live
                     /\ Apply(LegacyFailed(Run))
    /\ UNCHANGED << callVars, Config, pending, terminateFaults, anyRecognized, cancelRequested >>

LegacyRecognize ==
    /\ pc = "recognize" /\ stage \in LegacyStages
    /\ \/ \E report \in EngineReports :
             /\ pending' = PendingReturn(report)
             /\ Step("terminate")
       \/ /\ pending' = pending
          /\ Apply(LegacyFailed(Run))
    /\ UNCHANGED << callVars, Config, live, terminateFaults, anyRecognized, cancelRequested >>

LegacyTerminate ==
    /\ pc = "terminate" /\ stage \in LegacyStages
    /\ live' = live - 1
    /\ Apply(LegacyRecognized(Run, pending.report))
    /\ pending' = NoPending
    /\ Noted(pending)
    /\ UNCHANGED << callVars, Config, terminateFaults, cancelRequested >>

(***************************************************************************)
(* performStandardOCR, img.extractor.ts:487-530.                           *)
(***************************************************************************)
\* const worker = await createWorker(languages), outside the try
StandardCreateWorker ==
    /\ pc = "createWorker" /\ stage = "standard"
    /\ \E ok \in BOOLEAN :
          IF ok THEN /\ live' = live + 1
                     /\ Step(IF isArabicOCR THEN "setParameters" ELSE "recognize")
                ELSE /\ live' = live
                     /\ Apply(Throw([Run EXCEPT !.event = "failed"]))
    /\ UNCHANGED << callVars, Config, pending, terminateFaults, anyRecognized, cancelRequested >>

StandardSetParameters ==
    /\ pc = "setParameters" /\ stage = "standard"
    /\ \E ok \in BOOLEAN :
          IF ok THEN /\ Step("recognize")
                     /\ pending' = pending
                ELSE /\ Step("terminate")
                     /\ pending' = PendingThrow
    /\ UNCHANGED << callVars, Config, live, terminateFaults, anyRecognized, cancelRequested >>

StandardRecognize ==
    /\ pc = "recognize" /\ stage = "standard"
    /\ \/ \E report \in EngineReports : pending' = PendingReturn(report)
       \/ pending' = PendingThrow
    /\ Step("terminate")
    /\ UNCHANGED << callVars, Config, live, terminateFaults, anyRecognized, cancelRequested >>

\* finally { await worker.terminate() }
StandardTerminate ==
    /\ pc = "terminate" /\ stage = "standard"
    /\ live' = live - 1
    /\ Apply(IF pending.kind = "return"
             THEN Return([Run EXCEPT !.event = "recognized"], "standard", "standard")
             ELSE Throw([Run EXCEPT !.event = "failed"]))
    /\ pending' = NoPending
    /\ Noted(pending)
    /\ UNCHANGED << callVars, Config, terminateFaults, cancelRequested >>

(***************************************************************************)
(* The caller's cancellation / deadline signal.  ArabicOCROptions          *)
(* (advanced-arabic-ocr.ts:18-23) has no field for it and no function of   *)
(* the pipeline takes one: the signal can be raised, nothing reads it.     *)
(***************************************************************************)
Cancel ==
    /\ pc \notin {"start", "done"}
    /\ ~cancelRequested
    /\ cancelRequested' = TRUE
    /\ UNCHANGED << callVars, Config, stage, idx, pc, image, bestResult, pending, variants,
                    allResults, advancedResult, fallbackResult, outcome, event,
                    live, terminateFaults, anyRecognized >>

Next ==
    \/ Start
    \/ ValidateImage
    \/ CreateImageVariants
    \/ AdvancedPreprocess
    \/ LegacyPreprocess
    \/ SingleCreateWorker
    \/ SingleSetParameters
    \/ SingleRecognize
    \/ SingleTerminate
    \/ FallbackCreateWorker
    \/ FallbackSetParameters
    \/ FallbackRecognize
    \/ FallbackTerminate
    \/ LegacyCreateWorker
    \/ LegacyRetryCreateWorker
    \/ LegacyRecognize
    \/ LegacyTerminate
    \/ StandardCreateWorker
    \/ StandardSetParameters
    \/ StandardRecognize
    \/ StandardTerminate

\* every entry point, with an engine whose terminate() resolves and a caller
\* that raises no cancellation
Spec == Init /\ [][Next]_vars

\* performAdvancedArabicOCR with a caller that may raise its cancellation
\* signal and an engine whose terminate() may reject
InitAdvanced == Init /\ entry = "performAdvancedArabicOCR"

NextAdvanced ==
    \/ Start
    \/ AdvancedPreprocess
    \/ SingleCreateWorker
    \/ SingleSetParameters
    \/ SingleRecognize
    \/ SingleTerminate
    \/ SingleTerminateRejected
    \/ Cancel

SpecAdvanced == InitAdvanced /\ [][NextAdvanced]_vars

(***************************************************************************)
(* performAdvancedArabicOCR (advanced-arabic-ocr.ts:197-318) and           *)
(* performComprehensiveArabicOCR (arabic-ocr-fallback.ts:162-196) as their *)
(* own code sees a run: each attempt is one call that returns a result or  *)
(* throws.  `returned` keeps what the attempts of the run came to, call by *)
(* call: it is a record of the run, no code reads it.                      *)
(***************************************************************************)
\* the name an attempt's result carries (lines 228-233, 265-270, 292-297;
\* arabic-ocr-fallback.ts:34, 110)
AttemptName(r) ==
    CASE r.stage = "variants" -> PREPROCESSING_STRATEGIES[r.idx]
      [] r.stage = "original" -> "original"
      [] r.stage = "psm" -> psmModes[r.idx]
      [] r.stage \in {"languages", "oem"} -> FallbackMethod(r)

AttemptReturned(r, report) ==
    [strategy |-> AttemptName(r), confidence |-> OrZero(report), success |-> TRUE]
AttemptThrew(r) ==
    [strategy |-> AttemptName(r), confidence |-> 0, success |-> FALSE]

\* the options of the runs that are recorded: maxAttempts absent, 0, 1 and
\* more than there are strategies; the stage of the preprocessed variants
\* enabled (by default) or disabled; the default threshold
AttemptOptions ==
    [ maxAttempts : {Absent, Given(0), Given(1), Given(MaxAttemptsOption)},
      minConfidenceThreshold : {Absent},
      enableAdvancedPreprocessing : {Absent, Given(FALSE)} ]

InitAttempts ==
    /\ Init
    /\ entry \in {"performAdvancedArabicOCR", "performComprehensiveArabicOCR"}
    /\ entry = "performAdvancedArabicOCR" => options \in AttemptOptions

\* await performSingleOCRAttempt(...) resolves
AttemptReturns ==
    /\ pc = "createWorker" /\ stage \in {"variants", "original", "psm"}
    /\ \E report \in EngineReports :
          /\ Apply(AttemptRecognized(Run, report))
          /\ returned' = Append(returned, AttemptReturned(Run, report))
    /\ anyRecognized' = TRUE
    /\ UNCHANGED << Config, call, argument, pending, live, terminateFaults, cancelRequested >>

\* await performSingleOCRAttempt(...) rejects
AttemptThrows ==
    /\ pc = "createWorker" /\ stage \in {"variants", "original", "psm"}
    /\ Apply(AttemptFailed(Run))
    /\ returned' = Append(returned, AttemptThrew(Run))
    /\ UNCHANGED << Config, call, argument, pending, live, terminateFaults,
                    anyRecognized, cancelRequested >>

\* one iteration of tryMultiLanguageOCR or tryDifferentOEModes runs through
FallbackAttemptReturns ==
    /\ pc = "createWorker" /\ stage \in FallbackStages
    /\ \E report \in EngineReports :
          /\ Apply(FallbackRecognized(Run, report))
          /\ returned' = Append(returned, AttemptReturned(Run, report))
    /\ anyRecognized' = TRUE
    /\ UNCHANGED << Config, call, argument, pending, live, terminateFaults, cancelRequested >>

\* one iteration ends in its catch block
FallbackAttemptThrows ==
    /\ pc = "createWorker" /\ stage \in FallbackStages
    /\ Apply(FallbackFailed(Run))
    /\ returned' = Append(returned, AttemptThrew(Run))
    /\ UNCHANGED << Config, call, argument, pending, live, terminateFaults,
                    anyRecognized, cancelRequested >>

NextAttempts ==
    \/ Start
    \/ AdvancedPreprocess
    \/ AttemptReturns
    \/ AttemptThrows
    \/ FallbackAttemptReturns
    \/ FallbackAttemptThrows

SpecAttempts == InitAttempts /\ [][NextAttempts]_vars

\* every await of a run comes back: the engine call returns or throws
SpecAttemptsFair == SpecAttempts /\ WF_vars(NextAttempts)

TypeOK ==
    /\ entry \in EntryPoints
    /\ live \in 0..20
    /\ pc \in {"start", "validateImage", "createImageVariants", "preprocess",
               "createWorker", "retryCreateWorker", "setParameters",
               "recognize", "terminate", "done"}
    /\ outcome.kind \in {"running", "returned", "threw"}
    /\ (pc = "done") = (outcome.kind # "running")


(***************************************************************************)
(* Text.  A text is a sequence of characters; a character is named by a    *)
(* short string.  The classes are those of the regular expressions of the  *)
(* code.                                                                   *)
(***************************************************************************)
\* 0-9 and the Arabic-Indic digits U+0660..U+0669
AsciiDigits == << "0", "1", "2", "3", "4", "5", "6", "7", "8", "9" >>
ArabicIndicDigits ==
    << "arabic_0", "arabic_1", "arabic_2", "arabic_3", "arabic_4",
       "arabic_5", "arabic_6", "arabic_7", "arabic_8", "arabic_9" >>
\* the characters of the model that lie in [ا-ي], U+0627..U+064A
LetterRange ==
    {"alef", "beh", "lam", "waw", "meem", "noon", "heh", "teh_marbuta", "seen",
     "kaf", "yeh", "alef_maksura", "tatweel", "teh"}
\* آ أ إ ٱ
AlefForms == {"alef_madda", "alef_hamza", "alef_hamza_below", "alef_wasla"}
\* ؤ ئ
HamzaCarriers == {"waw_hamza", "yeh_hamza"}
\* [\u064B-\u065F\u0670\u06D6-\u06ED]
Diacritics == {"fatha"}
\* [،؛؟]
SearchPunctuation == {"arabic_comma", "arabic_semicolon", "arabic_question"}
\* containsArabic: U+0600-U+06FF, U+0750-U+077F, U+08A0-U+08FF.  The hamza
\* (U+0621) and the Arabic comma (U+060C) are in the block and outside [ا-ي]
ArabicBlock ==
    LetterRange \cup {"hamza"} \cup Range(ArabicIndicDigits) \cup AlefForms
        \cup HamzaCarriers \cup Diacritics \cup SearchPunctuation
\* \s
Whitespace == {"sp", "nl"}
\* [a-zA-Z]
LatinLetters == {"a", "o", "O", "l"}
\* [.!?]
SentenceMarks == {"dot"}

IsLetter(t, i) == i >= 1 /\ i <= Len(t) /\ t[i] \in LetterRange
IsSpace(t, i) == i >= 1 /\ i <= Len(t) /\ t[i] \in Whitespace

\* arabicRegex.test(text)
containsArabic(t) == \E i \in 1..Len(t) : t[i] \in ArabicBlock

\* the position after the whitespace that starts at i (i itself if none): \s*
RECURSIVE AfterSpaces(_, _)
AfterSpaces(t, i) == IF IsSpace(t, i) THEN AfterSpaces(t, i + 1) ELSE i

\* String.prototype.trim
RECURSIVE TrimEnd(_)
TrimEnd(t) ==
    IF t # << >> /\ t[Len(t)] \in Whitespace
    THEN TrimEnd(SubSeq(t, 1, Len(t) - 1)) ELSE t
Trim(t) == LET j == AfterSpaces(t, 1) IN TrimEnd(SubSeq(t, j, Len(t)))

\* where a match of the pattern that starts at i ends, 0 when there is none
\*   "brokenWord"   /([ا-ي])\s+([ا-ي])\s+([ا-ي])/
\*   "punctuation"  /[ا-ي][.!?][ا-ي]/
\*   "mixedScript"  /[a-zA-Z][ا-ي]|[ا-ي][a-zA-Z]/
MatchEnd(pattern, t, i) ==
    CASE pattern = "brokenWord" ->
            LET j == AfterSpaces(t, i + 1)
                k == AfterSpaces(t, j + 1)
            IN  IF /\ IsLetter(t, i) /\ j > i + 1 /\ IsLetter(t, j)
                   /\ k > j + 1 /\ IsLetter(t, k)
                THEN k ELSE 0
      [] pattern = "punctuation" ->
            IF /\ IsLetter(t, i) /\ i + 2 <= Len(t)
               /\ t[i + 1] \in SentenceMarks /\ IsLetter(t, i + 2)
            THEN i + 2 ELSE 0
      [] pattern = "mixedScript" ->
            IF /\ i + 1 <= Len(t)
               /\ \/ (t[i] \in LatinLetters /\ IsLetter(t, i + 1))
                  \/ (IsLetter(t, i) /\ t[i + 1] \in LatinLetters)
            THEN i + 1 ELSE 0

\* (text.match(/.../g) || []).length: the matches from left to right, each
\* search resuming after the match before it
RECURSIVE CountMatches(_, _, _)
CountMatches(pattern, t, i) ==
    LET starts == {j \in i..Len(t) : MatchEnd(pattern, t, j) > 0} IN
    IF starts = {} THEN 0
    ELSE LET first == CHOOSE j \in starts : \A k \in starts : j <= k
         IN  1 + CountMatches(pattern, t, MatchEnd(pattern, t, first) + 1)

(***************************************************************************)
(* scoreArabicTextQuality, arabic-text-enhancer.ts:238-297.                *)
(***************************************************************************)
\* text.split(/\s+/).filter(word => containsArabic(word)): no character of
\* the Arabic block is whitespace, so each lies in a word
arabicWords(t) == {i \in 1..Len(t) : t[i] \in ArabicBlock}

\* one check of lines 251-290: its penalty and what it reports
Penalty(points, issue, suggestion) ==
    [points |-> points, issues |-> << issue >>, suggestions |-> << suggestion >>]
NoPenalty == [points |-> 0, issues |-> << >>, suggestions |-> << >>]

ScoreChecks(t) ==
    LET brokenWords == CountMatches("brokenWord", t, 1)
        punctuationErrors == CountMatches("punctuation", t, 1)
        mixedIssues == CountMatches("mixedScript", t, 1)
    IN  << IF brokenWords > 3
           THEN Penalty(brokenWords * 5, "Many broken words detected",
                        "Try higher resolution or better image quality")
           ELSE NoPenalty,
           IF punctuationErrors > 2
           THEN Penalty(punctuationErrors * 3, "Punctuation spacing issues",
                        "Check for proper sentence boundaries")
           ELSE NoPenalty,
           IF mixedIssues > 2
           THEN Penalty(mixedIssues * 2, "Mixed script boundary issues",
                        "May need better language detection")
           ELSE NoPenalty,
           IF Len(Trim(t)) < 10
           THEN Penalty(20, "Very short text extracted",
                        "Ensure image contains readable text")
           ELSE NoPenalty,
           IF arabicWords(t) = {}
           THEN Penalty(30, "No Arabic words found",
                        "Check if image contains Arabic text")
           ELSE NoPenalty >>

\* a score that is returned as computed
Unclamped(score) == score
\* Math.max(0, Math.min(100, score))
ClampScore(score) ==
    IF score > 100 THEN 100 ELSE IF score < 0 THEN 0 ELSE score

\* lines 245-296 without the early return of lines 247-249
ScoreByPenalties(t) ==
    LET checks == ScoreChecks(t) IN
    [ score |-> ClampScore(100 - (checks[1].points + checks[2].points
                                  + checks[3].points + checks[4].points
                                  + checks[5].points)),
      issues |-> checks[1].issues \o checks[2].issues \o checks[3].issues
                 \o checks[4].issues \o checks[5].issues,
      suggestions |-> checks[1].suggestions \o checks[2].suggestions
                      \o checks[3].suggestions \o checks[4].suggestions
                      \o checks[5].suggestions ]

\* a scoring that leaves out the test of lines 247-249
ScoreWithoutPriority(t) == ScoreByPenalties(t)
scoreArabicTextQuality(t) ==
    IF ~containsArabic(t)
    THEN [score |-> 0, issues |-> << "No Arabic text detected" >>, suggestions |-> << >>]
    ELSE ScoreByPenalties(t)

\* the texts that are scored: every text of up to MaxScoredLen characters,
\* and texts made of up to MaxRepeat broken words, punctuation errors and
\* script changes
ScoredAlphabet == {"beh", "hamza", "a", "sp", "dot"}
RECURSIVE Repeat(_, _)
Repeat(block, n) == IF n = 0 THEN << >> ELSE block \o Repeat(block, n - 1)
RepeatCounts == {0, 3, 4, MaxRepeat}
ShortTexts == UNION { [1..n -> ScoredAlphabet] : n \in 0..MaxScoredLen }
PatternTexts ==
    { Repeat(<< "beh", "sp", "beh", "sp", "beh" >>, b)
        \o Repeat(<< "beh", "dot", "beh" >>, p)
        \o Repeat(<< "a", "beh" >>, m) : b, p, m \in RepeatCounts }
ScoredTexts == ShortTexts \cup PatternTexts

\* the OCR variables while a pure function is called on its own
NoRun ==
    /\ entry = "none" /\ languages = << >> /\ options = NoOptions
    /\ stage = "none" /\ idx = 0 /\ pc = "done" /\ image = "raw"
    /\ bestResult = NoResult /\ pending = NoPending
    /\ variants = << >> /\ allResults = << >>
    /\ advancedResult = NoResult /\ fallbackResult = NoFallback
    /\ outcome = Running /\ event = "none" /\ live = 0
    /\ terminateFaults = 0 /\ anyRecognized = FALSE /\ cancelRequested = FALSE
runVars ==
    << entry, languages, options, stage, idx, pc, image, bestResult, pending,
       variants, allResults, advancedResult, fallbackResult, outcome, event,
       live, terminateFaults, anyRecognized, cancelRequested >>

InitScore ==
    /\ NoRun
    /\ call = "scoreArabicTextQuality"
    /\ argument \in ScoredTexts
    /\ returned = << >>

\* the caller receives the function's result
Score ==
    /\ call = "scoreArabicTextQuality" /\ returned = << >>
    /\ returned' = << scoreArabicTextQuality(argument) >>
    /\ UNCHANGED << runVars, call, argument >>

NextScore == Score

SpecScore == InitScore /\ [][NextScore]_vars

(***************************************************************************)
(* Scaling of an image before it is enhanced: preprocessImage              *)
(* (img.extractor.ts:138-210), preprocessImageForOCR                       *)
(* (image-preprocessor.ts:28-80) and advancedArabicPreprocessing           *)
(* (advanced-arabic-ocr.ts:78-125).  An image is its metadata: width,      *)
(* height and density, 0 for a field the raster library does not report.   *)
(* A scale factor is a fraction n/d of naturals, so that Math.max,         *)
(* Math.min and Math.round are computed exactly.  A call of resize sets    *)
(* the output size of the pipeline: of two calls the later one decides.    *)
(***************************************************************************)
\* img.extractor.ts:144-145
preprocessImage_minWidth == 100
preprocessImage_minHeight == 50
\* image-preprocessor.ts:61-62
preprocessImageForOCR_minWidth == 400
preprocessImageForOCR_minHeight == 200
\* advanced-arabic-ocr.ts:105-106
advancedArabicPreprocessing_minWidth == 600
advancedArabicPreprocessing_minHeight == 300
\* image-preprocessor.ts:51, advanced-arabic-ocr.ts:96
TooSmallToProcess == 20
\* image-preprocessor.ts:57, advanced-arabic-ocr.ts:101
DefaultDensity == 72
\* image-preprocessor.ts:35 and 231
preprocessImageForOCR_targetDpis == {300, 200}

\* advanced-arabic-ocr.ts:32, 43, 54, 65
StrategyTargetDpi(strategyName) ==
    CASE strategyName = "high_contrast_binarized" -> 400
      [] strategyName = "adaptive_threshold" -> 350
      [] strategyName = "noise_reduced_enhanced" -> 300
      [] strategyName = "minimal_processing" -> 250

Fraction(n, d) == [n |-> n, d |-> d]
FractionLess(a, b) == a.n * b.d < b.n * a.d
FractionMax(a, b) == IF FractionLess(a, b) THEN b ELSE a
FractionMin(a, b) == IF FractionLess(a, b) THEN a ELSE b
\* Math.round(size * scaleFactor)
RoundScaled(size, f) == (2 * size * f.n + f.d) \div (2 * f.d)
\* Math.ceil(minimum / size)
CeilRatio(minimum, size) == (minimum + size - 1) \div size

\* the image as it is handed to the steps that follow the scaling
Scaled(w, h) == [reached |-> TRUE, width |-> w, height |-> h]
\* the buffer is returned as it came, no step runs on it
NotProcessed == [reached |-> FALSE, width |-> 0, height |-> 0]

\* if (scaleFactor > 1.1 || scaleFactor < 0.9) image.resize(newWidth, newHeight)
IntelligentScaling(width, height, scaleFactor) ==
    IF 10 * scaleFactor.n > 11 * scaleFactor.d \/ 10 * scaleFactor.n < 9 * scaleFactor.d
    THEN Scaled(RoundScaled(width, scaleFactor), RoundScaled(height, scaleFactor))
    ELSE Scaled(width, height)

\* img.extractor.ts:138-197
preprocessImage(variant, metadata) ==
    LET width == metadata.width
        height == metadata.height
        scaleX == Max(1, CeilRatio(preprocessImage_minWidth, width))
        scaleY == Max(1, CeilRatio(preprocessImage_minHeight, height))
        scale == Max(scaleX, scaleY)
    IN  IF width = 0 \/ height = 0
        THEN NotProcessed     \* line 148 throws, line 208 returns the buffer
        ELSE IF variant = "enhanced_upscaled"
        THEN Scaled(width * 2, height * 2)     \* line 182, the later resize
        ELSE IF width < preprocessImage_minWidth \/ height < preprocessImage_minHeight
        THEN Scaled(width * scale, height * scale)
        ELSE Scaled(width, height)

\* image-preprocessor.ts:46-80
preprocessImageForOCR(targetDpi, metadata) ==
    LET width == metadata.width
        height == metadata.height
        currentDpi == IF metadata.density = 0 THEN DefaultDensity ELSE metadata.density
        byDpi == Fraction(targetDpi, currentDpi)
        scaleX == Fraction(preprocessImageForOCR_minWidth, width)
        scaleY == Fraction(preprocessImageForOCR_minHeight, height)
        scaleFactor ==
            IF width < preprocessImageForOCR_minWidth \/ height < preprocessImageForOCR_minHeight
            THEN FractionMax(byDpi, FractionMin(scaleX, scaleY))
            ELSE byDpi
    IN  IF width < TooSmallToProcess \/ height < TooSmallToProcess
        THEN NotProcessed
        ELSE IntelligentScaling(width, height, scaleFactor)

\* advanced-arabic-ocr.ts:87-125
advancedArabicPreprocessing(strategyName, metadata) ==
    LET width == metadata.width
        height == metadata.height
        currentDpi == IF metadata.density = 0 THEN DefaultDensity ELSE metadata.density
        byDpi == Fraction(StrategyTargetDpi(strategyName), currentDpi)
        scaleX == Fraction(advancedArabicPreprocessing_minWidth, width)
        scaleY == Fraction(advancedArabicPreprocessing_minHeight, height)
        wanted ==
            IF width < advancedArabicPreprocessing_minWidth
                \/ height < advancedArabicPreprocessing_minHeight
            THEN FractionMax(FractionMax(byDpi, FractionMin(scaleX, scaleY)), Fraction(2, 1))
            ELSE byDpi
        scaleFactor == FractionMin(wanted, Fraction(5, 1))
    IN  IF width < TooSmallToProcess \/ height < TooSmallToProcess
        THEN NotProcessed
        ELSE IntelligentScaling(width, height, scaleFactor)

\* the images that are given: sizes around every threshold of the three
\* functions, with and without a density
ImageWidths == {0, 10, 20, 30, 60, 99, 100, 150, 399, 400, 599, 600, 800}
ImageHeights == {0, 10, 20, 40, 49, 50, 199, 200, 299, 300, 600}
ImageDensities == {0, 72, 300}
ImageMetadata ==
    [width : ImageWidths, height : ImageHeights, density : ImageDensities]

MinimumOf(fn) ==
    CASE fn = "preprocessImage" ->
            [width |-> preprocessImage_minWidth, height |-> preprocessImage_minHeight]
      [] fn = "preprocessImageForOCR" ->
            [width |-> preprocessImageForOCR_minWidth,
             height |-> preprocessImageForOCR_minHeight]
      [] fn = "advancedArabicPreprocessing" ->
            [width |-> advancedArabicPreprocessing_minWidth,
             height |-> advancedArabicPreprocessing_minHeight]

InitScale ==
    /\ NoRun
    /\ call \in {"preprocessImage", "preprocessImageForOCR", "advancedArabicPreprocessing"}
    /\ \E metadata \in ImageMetadata :
          \/ /\ call = "preprocessImage"
             /\ \E variant \in Range(legacyVariants) :
                   argument = [variant |-> variant, targetDpi |-> 0, metadata |-> metadata]
          \/ /\ call = "preprocessImageForOCR"
             /\ \E targetDpi \in preprocessImageForOCR_targetDpis :
                   argument = [variant |-> "", targetDpi |-> targetDpi, metadata |-> metadata]
          \/ /\ call = "advancedArabicPreprocessing"
             /\ \E strategyName \in Range(PREPROCESSING_STRATEGIES) :
                   argument = [variant |-> strategyName,
                               targetDpi |-> StrategyTargetDpi(strategyName),
                               metadata |-> metadata]
    /\ returned = << >>

ScalePreprocessImage ==
    /\ call = "preprocessImage" /\ returned = << >>
    /\ returned' = << preprocessImage(argument.variant, argument.metadata) >>
    /\ UNCHANGED << runVars, call, argument >>

ScalePreprocessImageForOCR ==
    /\ call = "preprocessImageForOCR" /\ returned = << >>
    /\ returned' = << preprocessImageForOCR(argument.targetDpi, argument.metadata) >>
    /\ UNCHANGED << runVars, call, argument >>

ScaleAdvancedArabicPreprocessing ==
    /\ call = "advancedArabicPreprocessing" /\ returned = << >>
    /\ returned' = << advancedArabicPreprocessing(argument.variant, argument.metadata) >>
    /\ UNCHANGED << runVars, call, argument >>

NextScale ==
    \/ ScalePreprocessImage
    \/ ScalePreprocessImageForOCR
    \/ ScaleAdvancedArabicPreprocessing

SpecScale == InitScale /\ [][NextScale]_vars

(***************************************************************************)
(* The clean-up of recognized text: postprocessArabicOCR                   *)
(* (part_000:272-312) with normalizeArabicText (201-213),                  *)
(* fixCommonArabicOCRErrors (317-411), fixArabicWordBoundaries (416-434),  *)
(* reshapeArabicText (218-256), and enhanceArabicTextQuality (27-47) and   *)
(* reconstructArabicText (302-319) of arabic-text-enhancer.ts.             *)
(*                                                                         *)
(* The texts that are cleaned are over the characters seen, beh, lam, heh, *)
(* teh_marbuta, the space and the full stop.  A replacement of the code    *)
(* whose pattern needs a character outside these matches none of the texts *)
(* and is left out; every other replacement is applied as the code applies *)
(* it: all matches from left to right, each search resuming after the      *)
(* match before it, the replacements of a chain in the order of the code.  *)
(***************************************************************************)
\* one replacement of a chain, .replace(/pattern/g, to)
\*   fixArabicWordBoundaries  /([ا-ي])\s+([ا-ي])/g  ->  char1 + char2
JoinLetters == [kind |-> "joinLetters"]
\*   fixArabicWordBoundaries  /ب\s+([ا-ي])/g  ->  'ب$1'   (and و, ل)
PrefixSpaced(letter) == [kind |-> "prefixSpaced", letter |-> letter]
\*   fixArabicWordIssues      /ب\s*([ا-ي])/g  ->  'ب$1'   (and ل, و)
Prefix(letter) == [kind |-> "prefix", letter |-> letter]
\*   fixArabicSentenceIssues  /([ا-ي])\s*\.\s*([ا-ي])/g  ->  '$1. $2'
SentenceBoundary == [kind |-> "sentence"]
\*   /\s+/g -> ' ',  /\s{3,}/g -> '  ',  /\s{2,}/g -> ' '
Spaces(atLeast, to) == [kind |-> "spaces", atLeast |-> atLeast, to |-> to]
\*   finalArabicCleanup       /\s+([،؛؟!.])/g  ->  '$1'
BeforeMark == [kind |-> "beforeMark"]
\*   finalArabicCleanup       /([،؛؟!.])\s+/g  ->  '$1 '
AfterMark == [kind |-> "afterMark"]
\*   fixCommonArabicOCRErrors /[o0O]/g  ->  '٠'   (a class to one character)
Characters(from, to) == [kind |-> "characters", from |-> from, to |-> to]
\*   ARABIC_SEARCH_NORMALIZATION_PATTERNS /\u0640/g  ->  ''
Remove(from) == [kind |-> "remove", from |-> from]
\* [،؛؟!.]
CleanupMarks == {"dot", "arabic_comma"}

\* the last position of the match of the rule that starts at i, 0 when the
\* rule does not match there
RuleEnd(rule, t, i) ==
    LET j == AfterSpaces(t, i + 1) IN
    CASE rule.kind = "joinLetters" ->
            IF IsLetter(t, i) /\ j > i + 1 /\ IsLetter(t, j) THEN j ELSE 0
      [] rule.kind = "prefixSpaced" ->
            IF t[i] = rule.letter /\ j > i + 1 /\ IsLetter(t, j) THEN j ELSE 0
      [] rule.kind = "prefix" ->
            IF t[i] = rule.letter /\ IsLetter(t, j) THEN j ELSE 0
      [] rule.kind = "sentence" ->
            LET k == AfterSpaces(t, j + 1) IN
            IF IsLetter(t, i) /\ j <= Len(t) /\ t[j] = "dot" /\ IsLetter(t, k)
            THEN k ELSE 0
      [] rule.kind = "spaces" ->
            IF IsSpace(t, i) /\ AfterSpaces(t, i) - i >= rule.atLeast
            THEN AfterSpaces(t, i) - 1 ELSE 0
      [] rule.kind = "beforeMark" ->
            LET m == AfterSpaces(t, i) IN
            IF IsSpace(t, i) /\ m <= Len(t) /\ t[m] \in CleanupMarks THEN m ELSE 0
      [] rule.kind = "afterMark" ->
            IF t[i] \in CleanupMarks /\ IsSpace(t, i + 1) THEN j - 1 ELSE 0
      [] rule.kind \in {"characters", "remove"} ->
            IF t[i] \in rule.from THEN i ELSE 0

\* what the match from i to e is replaced with
Replacement(rule, t, i, e) ==
    CASE rule.kind \in {"joinLetters", "prefixSpaced", "prefix"} -> << t[i], t[e] >>
      [] rule.kind = "sentence" -> << t[i], "dot", "sp", t[e] >>
      [] rule.kind = "spaces" -> rule.to
      [] rule.kind = "beforeMark" -> << t[e] >>
      [] rule.kind = "afterMark" -> << t[i], "sp" >>
      [] rule.kind = "characters" -> << rule.to >>
      [] rule.kind = "remove" -> << >>

\* text.replace(/pattern/g, to), from position i on
RECURSIVE ReplaceAll(_, _, _)
ReplaceAll(rule, t, i) ==
    IF i > Len(t) THEN << >>
    ELSE LET e == RuleEnd(rule, t, i) IN
         IF e > 0
         THEN Replacement(rule, t, i, e) \o ReplaceAll(rule, t, e + 1)
         ELSE << t[i] >> \o ReplaceAll(rule, t, i + 1)

\* a chain of replacements, in its order
RECURSIVE ApplyRules(_, _)
ApplyRules(rules, t) ==
    IF rules = << >> THEN t
    ELSE ApplyRules(Tail(rules), ReplaceAll(Head(rules), t, 1))

\* ARABIC_NORMALIZATION_PATTERNS, part_000:183-196: [ةه] -> ة
NormalizedCharacter(c) == IF c = "heh" THEN "teh_marbuta" ELSE c
RECURSIVE NormalizedCharacters(_)
NormalizedCharacters(t) ==
    IF t = << >> THEN << >>
    ELSE << NormalizedCharacter(Head(t)) >> \o NormalizedCharacters(Tail(t))

\* part_000:201-213
normalizeArabicText(t) ==
    Trim(ReplaceAll(Spaces(1, << "sp" >>), NormalizedCharacters(t), 1))

\* part_000:416-434
fixArabicWordBoundaries(t) ==
    ApplyRules(<< JoinLetters, PrefixSpaced("waw"), PrefixSpaced("beh"),
                  PrefixSpaced("lam") >>, t)

\* part_000:439-454: each ligature is replaced with itself
fixArabicLigatures(t) == t

\* part_000:320-329: /[o0O]/g -> '٠', /[1l]/g -> '١', /2/g -> '٢' ... /9/g -> '٩'
DigitRules ==
    << Characters({"o", "0", "O"}, ArabicIndicDigits[1]),
       Characters({"1", "l"}, ArabicIndicDigits[2]) >>
    \o [k \in 1..8 |-> Characters({AsciiDigits[k + 2]}, ArabicIndicDigits[k + 2])]

\* part_000:318-391, the rules that match a character of the texts
commonErrors == DigitRules \o << Spaces(3, << "sp", "sp" >>), Spaces(2, << "sp" >>) >>

\* part_000:317-411
fixCommonArabicOCRErrors(t) ==
    IF containsArabic(t)
    THEN Trim(fixArabicLigatures(fixArabicWordBoundaries(ApplyRules(commonErrors, t))))
    ELSE Trim(t)

\* arabic-text-enhancer.ts:52-86: presentation forms, apostrophes, quotes and
\* diacritics, none of them a character of the texts
fixArabicCharacterIssues(t) == t

\* arabic-text-enhancer.ts:91-122
fixArabicWordIssues(t) ==
    ApplyRules(<< Prefix("beh"), Prefix("lam"), Prefix("waw") >>, t)

\* arabic-text-enhancer.ts:127-147
fixArabicSentenceIssues(t) == ApplyRules(<< SentenceBoundary >>, t)

\* COMMON_ARABIC_WORDS, arabic-text-enhancer.ts:10-22, in the order of the
\* source.  A letter that is no character of the texts is written "other":
\* it equals no character of a text.  Words that become equal are kept once.
COMMON_ARABIC_WORDS ==
    <<
       << "other", "other" >>,
       << "other", "lam", "other" >>,
       << "heh", "other", "other" >>,
       << "heh", "other", "heh" >>,
       << "other", "lam", "other", "other" >>,
       << "other", "other", "other" >>,
       << "other", "other", "other", "other" >>,
       << "lam", "heh" >>,
       << "lam", "heh", "other" >>,
       << "lam", "other" >>,
       << "other", "lam" >>,
       << "beh", "other", "other" >>,
       << "other", "other", "other", "other", "other" >>,
       << "other", "lam", "other", "lam" >>,
       << "other", "beh", "lam" >>,
       << "other", "other", "other", "heh" >>,
       << "other", "other", "lam" >>,
       << "seen", "other", "other" >>,
       << "lam", "other", "other" >>,
       << "lam", "other", "other", "other", "other" >>,
       << "other", "lam", "lam", "heh" >>,
       << "other", "beh" >>,
       << "other", "seen", "lam", "other", "other" >>,
       << "other", "seen", "lam", "other" >>,
       << "other", "other", "beh", "other" >>,
       << "other", "other", "beh" >>,
       << "beh", "lam", "other" >>,
       << "other", "other", "lam", "teh_marbuta" >>,
       << "other", "other", "other", "other", "teh_marbuta" >>,
       << "other", "other", "other", "teh_marbuta" >>,
       << "other", "other", "other", "lam" >>,
       << "other", "other", "other", "beh" >>,
       << "other", "other", "other", "seen", "teh_marbuta" >>,
       << "other", "seen", "other", "other", "other", "other" >>,
       << "other", "seen", "other" >>,
       << "other", "heh", "other" >>,
       << "other", "other", "beh", "teh_marbuta" >>,
       << "seen", "other", "other", "teh_marbuta" >>,
       << "other", "seen", "other", "other" >>,
       << "other", "other", "other", "beh", "teh_marbuta" >>,
       << "seen", "other", "other", "other", "other" >>,
       << "other", "lam", "other", "beh" >>
    >>

\* calculateArabicSimilarity, arabic-text-enhancer.ts:205-233, as a fraction
calculateArabicSimilarity(word1, word2) ==
    LET norm1 == NormalizedCharacters(word1)
        norm2 == NormalizedCharacters(word2)
        maxLen == Max(Len(norm1), Len(norm2))
        minLen == Min(Len(norm1), Len(norm2))
        matches == Cardinality({i \in 1..minLen : norm1[i] = norm2[i]})
    IN  IF word1 = word2 THEN Fraction(1, 1)
        ELSE IF word1 = << >> \/ word2 = << >> THEN Fraction(0, 1)
        ELSE IF norm1 = norm2 THEN Fraction(95, 100)
        ELSE Fraction(matches, maxLen)

\* findClosestArabicWord, arabic-text-enhancer.ts:183-200: the positions in
\* the dictionary of the words that may be taken, and the one that is
CloseWords(word) ==
    { k \in 1..Len(COMMON_ARABIC_WORDS) :
        LET dictWord == COMMON_ARABIC_WORDS[k] IN
        /\ Len(dictWord) - Len(word) <= 2 /\ Len(word) - Len(dictWord) <= 2
        /\ FractionLess(Fraction(7, 10), calculateArabicSimilarity(word, dictWord)) }
findClosestArabicWord(word) ==
    LET close == CloseWords(word)
        score(k) == calculateArabicSimilarity(word, COMMON_ARABIC_WORDS[k])
        best == CHOOSE k \in close :
                    \A other \in close :
                        \/ FractionLess(score(other), score(k))
                        \/ (~FractionLess(score(k), score(other)) /\ k <= other)
    IN  IF Len(word) < 2 \/ close = {} THEN << >>
        ELSE << COMMON_ARABIC_WORDS[best] >>

\* text.split(/\s+/): the words, the empty ones at the ends included
RECURSIVE SplitWords(_, _, _)
SplitWords(t, i, word) ==
    IF i > Len(t) THEN << word >>
    ELSE IF IsSpace(t, i) THEN << word >> \o SplitWords(t, AfterSpaces(t, i), << >>)
    ELSE SplitWords(t, i + 1, Append(word, t[i]))
\* words.join(' ')
RECURSIVE JoinWords(_)
JoinWords(words) ==
    IF words = << >> THEN << >>
    ELSE IF Len(words) = 1 THEN words[1]
    ELSE words[1] \o << "sp" >> \o JoinWords(Tail(words))

\* word.replace(cleanWord, closeMatch): the first occurrence, if there is one
ReplaceFirst(word, cleanWord, closeMatch) ==
    LET n == Len(cleanWord)
        at == {i \in 1..(Len(word) - n + 1) : SubSeq(word, i, i + n - 1) = cleanWord}
        first == CHOOSE i \in at : \A k \in at : i <= k
    IN  IF at = {} THEN word
        ELSE SubSeq(word, 1, first - 1) \o closeMatch
                \o SubSeq(word, first + n, Len(word))

\* arabic-text-enhancer.ts:154-175, the correction of one word
CorrectedWord(word) ==
    LET InBlock(c) == c \in ArabicBlock
        cleanWord == SelectSeq(word, InBlock)
        closeMatch == findClosestArabicWord(cleanWord)
    IN  IF ~containsArabic(cleanWord) \/ Len(cleanWord) < 2 THEN word
        ELSE IF \E k \in 1..Len(COMMON_ARABIC_WORDS) : COMMON_ARABIC_WORDS[k] = cleanWord
        THEN word
        ELSE IF closeMatch # << >> THEN ReplaceFirst(word, cleanWord, closeMatch[1])
        ELSE word

RECURSIVE CorrectedWords(_)
CorrectedWords(words) ==
    IF words = << >> THEN << >>
    ELSE << CorrectedWord(Head(words)) >> \o CorrectedWords(Tail(words))

\* arabic-text-enhancer.ts:152-178
applyContextBasedCorrections(t) == JoinWords(CorrectedWords(SplitWords(t, 1, << >>)))

\* arabic-text-enhancer.ts:27-47
enhanceArabicTextQuality(t) ==
    IF ~containsArabic(t) THEN t
    ELSE Trim(applyContextBasedCorrections(fixArabicSentenceIssues(
            fixArabicWordIssues(fixArabicCharacterIssues(t)))))

\* arabic-text-enhancer.ts:324-351: every pattern needs a letter that is no
\* character of the texts
fixArabicPatterns(t) == t

\* arabic-text-enhancer.ts:356-378
finalArabicCleanup(t) ==
    Trim(ApplyRules(<< Spaces(1, << "sp" >>), BeforeMark, AfterMark >>, t))

\* arabic-text-enhancer.ts:302-319
reconstructArabicText(t) ==
    IF ~containsArabic(t) THEN t
    ELSE finalArabicCleanup(fixArabicPatterns(enhanceArabicTextQuality(t)))

\* what can throw inside postprocessArabicOCR: the require of line 274, the
\* calls of lines 285, 292 and 302 into the enhancer, the reshaping library
\* (line 224) and the bidirectional library (lines 238-243)
PostprocessFaults ==
    {"none", "require", "enhanceArabicTextQuality", "reconstructArabicText",
     "ArabicReshaper", "logicalToVisual", "scoreArabicTextQuality"}

\* part_000:218-256.  The libraries leave the text as it is when they do not
\* throw; the catch of line 251 returns the text normalized once more.
reshapeArabicText(t, fault) ==
    IF fault = "ArabicReshaper" THEN normalizeArabicText(t) ELSE t

\* a call that returns a text, and one that throws
ReturnedText(t) == [threw |-> FALSE, text |-> t]
ThrownError == [threw |-> TRUE, text |-> << >>]

\* part_000:272-312
postprocessArabicOCR(ocrOutput, fault) ==
    LET step2 == fixCommonArabicOCRErrors(normalizeArabicText(ocrOutput))
        step3 == IF fault = "enhanceArabicTextQuality" THEN step2
                 ELSE enhanceArabicTextQuality(step2)
        step4 == IF fault = "reconstructArabicText" THEN step3
                 ELSE reconstructArabicText(step3)
    IN  IF fault = "require" THEN ThrownError
        ELSE ReturnedText(reshapeArabicText(step4, fault))

\* advanced-arabic-ocr.ts:388-397 (and img.extractor.ts:73-80, 506-513,
\* arabic-ocr-fallback.ts:61-67, 128-134): processedText of a recognition in
\* an Arabic language
ProcessedText(text, fault) ==
    LET processed == postprocessArabicOCR(text, fault) IN
    IF text # << >> /\ containsArabic(text)
    THEN IF processed.threw THEN text ELSE processed.text
    ELSE text

\* the texts that are cleaned twice: every text of up to MaxCleanedLen
\* characters over a plain letter, a prefix letter, the space and the stop
CleanedAlphabet == {"seen", "beh", "sp", "dot"}
CleanedTexts == UNION { [1..n -> CleanedAlphabet] : n \in 0..MaxCleanedLen }

InitPostprocess ==
    /\ NoRun
    /\ call = "postprocessArabicOCR"
    /\ argument \in CleanedTexts
    /\ returned = << >>

\* postprocessArabicOCR(text)
Postprocess ==
    /\ call = "postprocessArabicOCR" /\ returned = << >>
    /\ returned' = << postprocessArabicOCR(argument, "none").text >>
    /\ UNCHANGED << runVars, call, argument >>

\* postprocessArabicOCR(postprocessArabicOCR(text))
PostprocessAgain ==
    /\ call = "postprocessArabicOCR" /\ Len(returned) = 1
    /\ returned' = Append(returned, postprocessArabicOCR(returned[1], "none").text)
    /\ UNCHANGED << runVars, call, argument >>

NextPostprocess == Postprocess \/ PostprocessAgain

SpecPostprocess == InitPostprocess /\ [][NextPostprocess]_vars

\* the texts that are recognized when a step of the clean-up throws: every
\* text of up to MaxRecognizedLen characters, among them the dictionary's له
RecognizedAlphabet == {"lam", "heh", "seen", "sp"}
RecognizedTexts == UNION { [1..n -> RecognizedAlphabet] : n \in 0..MaxRecognizedLen }

InitCallSite ==
    /\ NoRun
    /\ call = "performSingleOCRAttempt"
    /\ \E text \in RecognizedTexts, fault \in PostprocessFaults :
          argument = [text |-> text, fault |-> fault]
    /\ returned = << >>

\* lines 388-397 of performSingleOCRAttempt, after worker.recognize resolved
PostprocessRecognized ==
    /\ call = "performSingleOCRAttempt" /\ returned = << >>
    /\ returned' = << ProcessedText(argument.text, argument.fault) >>
    /\ UNCHANGED << runVars, call, argument >>

NextCallSite == PostprocessRecognized

SpecCallSite == InitCallSite /\ [][NextCallSite]_vars

\* the texts whose digits are looked at: every text of up to MaxDigitLen
\* characters over a letter, the Latin letters and digits of the first two
\* rules, a digit of the other rules and the space
DigitAlphabet == {"seen", "o", "O", "l", "0", "1", "2", "sp"}
DigitTexts == UNION { [1..n -> DigitAlphabet] : n \in 0..MaxDigitLen }

InitDigits ==
    /\ NoRun
    /\ call = "fixCommonArabicOCRErrors"
    /\ argument \in DigitTexts
    /\ returned = << >>

\* fixCommonArabicOCRErrors(text)
FixCommonErrors ==
    /\ call = "fixCommonArabicOCRErrors" /\ returned = << >>
    /\ returned' = << fixCommonArabicOCRErrors(argument) >>
    /\ UNCHANGED << runVars, call, argument >>

NextDigits == FixCommonErrors

SpecDigits == InitDigits /\ [][NextDigits]_vars

(***************************************************************************)
(* Search: arabic-search-processor.ts and the migration that fills the     *)
(* index, 0010-arabic-fts-enhancement.migration.ts.                        *)
(***************************************************************************)
\* arabic-search-processor.ts:6-21
ARABIC_SEARCH_NORMALIZATION_PATTERNS ==
    << Characters(AlefForms, "alef"),
       Characters({"yeh", "alef_maksura"}, "yeh"),
       Characters({"teh_marbuta", "heh"}, "teh_marbuta"),
       Remove(Diacritics),
       Characters(HamzaCarriers, "hamza"),
       Remove({"tatweel"}),
       Characters(SearchPunctuation, "sp") >>

\* String.prototype.toLowerCase, on the letters of the texts
LowerCase(c) == CASE c = "A" -> "a" [] c = "O" -> "o" [] OTHER -> c
RECURSIVE toLowerCase(_)
toLowerCase(t) ==
    IF t = << >> THEN << >> ELSE << LowerCase(Head(t)) >> \o toLowerCase(Tail(t))

\* a faulty order: the whitespace is collapsed before the patterns are applied
CollapseFirst(t) ==
    ApplyRules(ARABIC_SEARCH_NORMALIZATION_PATTERNS,
               toLowerCase(Trim(ReplaceAll(Spaces(1, << "sp" >>), t, 1))))
\* arabic-search-processor.ts:26-38
normalizeArabicForSearch(t) ==
    toLowerCase(Trim(ReplaceAll(Spaces(1, << "sp" >>),
                                ApplyRules(ARABIC_SEARCH_NORMALIZATION_PATTERNS, t), 1)))

\* the texts that are normalized: every text of up to MaxSearchLen characters
\* over one character of each class of the patterns, a capital and the space
SearchAlphabet ==
    {"alef_hamza", "alef", "alef_maksura", "heh", "waw_hamza", "fatha",
     "tatweel", "arabic_comma", "sp", "A"}
SearchTexts == UNION { [1..n -> SearchAlphabet] : n \in 0..MaxSearchLen }

InitNormalize ==
    /\ NoRun
    /\ call = "normalizeArabicForSearch"
    /\ argument \in SearchTexts
    /\ returned = << >>

\* normalizeArabicForSearch(text)
Normalize ==
    /\ call = "normalizeArabicForSearch" /\ returned = << >>
    /\ returned' = << normalizeArabicForSearch(argument) >>
    /\ UNCHANGED << runVars, call, argument >>

\* normalizeArabicForSearch(normalizeArabicForSearch(text))
NormalizeAgain ==
    /\ call = "normalizeArabicForSearch" /\ Len(returned) = 1
    /\ returned' = Append(returned, normalizeArabicForSearch(returned[1]))
    /\ UNCHANGED << runVars, call, argument >>

NextNormalize == Normalize \/ NormalizeAgain

SpecNormalize == InitNormalize /\ [][NextNormalize]_vars

\* [\s\u060C\u061B\u061F\u0640]
SearchSeparators == Whitespace \cup SearchPunctuation \cup {"tatweel"}

\* normalized.split(/[\s\u060C\u061B\u061F\u0640]+/).filter(token => token.length > 0),
\* from position i on, `word` being the token under way
RECURSIVE SplitFrom(_, _, _)
SplitFrom(t, i, word) ==
    LET done == IF word = << >> THEN << >> ELSE << word >> IN
    IF i > Len(t) THEN done
    ELSE IF t[i] \in SearchSeparators
         THEN done \o SplitFrom(t, i + 1, << >>)
         ELSE SplitFrom(t, i + 1, Append(word, t[i]))

\* Set.prototype.add: a set keeps the order of insertion
SetAdd(set, x) == IF Includes(set, x) THEN set ELSE Append(set, x)

\* token.replace(/^(ال|و|ب|ل|ك)/, '')
withoutPrefixes(token) ==
    IF Len(token) >= 2 /\ token[1] = "alef" /\ token[2] = "lam"
    THEN SubSeq(token, 3, Len(token))
    ELSE IF token # << >> /\ token[1] \in {"waw", "beh", "lam", "kaf"}
         THEN Tail(token)
         ELSE token

\* token.replace(/(ها|ان|ات|ون|ين)$/, '')
withoutSuffixes(token) ==
    IF Len(token) >= 2
       /\ SubSeq(token, Len(token) - 1, Len(token))
             \in {<< "heh", "alef" >>, << "alef", "noon" >>, << "alef", "teh" >>,
                  << "waw", "noon" >>, << "yeh", "noon" >>}
    THEN SubSeq(token, 1, Len(token) - 2)
    ELSE token

\* arabic-search-processor.ts:63-80: what one token adds to enhancedTokens
EnhanceToken(set, token) ==
    IF Len(token) >= 3 /\ containsArabic(token)
    THEN LET p == withoutPrefixes(token)
             x == withoutSuffixes(token)
             s1 == SetAdd(set, token)
             s2 == IF p # token /\ Len(p) >= 2 THEN SetAdd(s1, p) ELSE s1
         IN  IF x # token /\ Len(x) >= 2 THEN SetAdd(s2, x) ELSE s2
    ELSE set

RECURSIVE AddAll(_, _)
AddAll(set, tokens) ==
    IF tokens = << >> THEN set ELSE AddAll(SetAdd(set, Head(tokens)), Tail(tokens))
RECURSIVE EnhanceAll(_, _)
EnhanceAll(set, tokens) ==
    IF tokens = << >> THEN set
    ELSE EnhanceAll(EnhanceToken(set, Head(tokens)), Tail(tokens))

\* arabic-search-processor.ts:52-83
tokenizeArabicText(text) ==
    LET tokens == SplitFrom(normalizeArabicForSearch(text), 1, << >>) IN
    EnhanceAll(AddAll(<< >>, tokens), tokens)

\* the pieces of the FTS5 expression
Quoted(token) == << "quote" >> \o token \o << "quote" >>
Starred(token) == token \o << "star" >>
Parenthesized(expression) == << "lparen" >> \o expression \o << "rparen" >>
OrWord == << "sp", "O", "R", "sp" >>
AndWord == << "sp", "A", "N", "D", "sp" >>

\* Array.prototype.join
RECURSIVE Join(_, _)
Join(parts, separator) ==
    IF parts = << >> THEN << >>
    ELSE IF Len(parts) = 1 THEN parts[1]
    ELSE parts[1] \o separator \o Join(Tail(parts), separator)

\* lines 126-133: one word of a query of several tokens
IndividualWord(token) ==
    IF containsArabic(token)
    THEN Parenthesized(Starred(token) \o OrWord \o Quoted(token))
    ELSE Starred(token)

\* arabic-search-processor.ts:88-139
prepareArabicSearchQuery(query) ==
    LET normalized == normalizeArabicForSearch(query)
        tokens == tokenizeArabicText(normalized)
    IN  IF Trim(normalized) = << >> \/ tokens = << >> THEN << >>
        ELSE IF Len(tokens) = 1
        THEN LET token == tokens[1]
                 p == withoutPrefixes(token)
             IN  IF containsArabic(token)
                 THEN Join(<< Quoted(token), Starred(token) >>
                           \o (IF p # token /\ Len(p) >= 2
                               THEN << Quoted(p), Starred(p) >> ELSE << >>),
                           OrWord)
                 ELSE Starred(token)
        ELSE Parenthesized(Quoted(normalized)) \o OrWord
             \o Parenthesized(Join([i \in 1..Len(tokens) |-> IndividualWord(tokens[i])],
                                   AndWord))

\* the queries: every text of up to MaxQueryLen characters over the letters
\* of the prefixes ال, ب, ل and of the suffix ان, a plain letter and the space
QueryAlphabet == {"alef", "lam", "beh", "noon", "seen", "sp"}
Queries == UNION { [1..n -> QueryAlphabet] : n \in 0..MaxQueryLen }

InitQuery ==
    /\ NoRun
    /\ call = "prepareArabicSearchQuery"
    /\ argument \in Queries
    /\ returned = << >>

\* prepareArabicSearchQuery(query)
PrepareQuery ==
    /\ call = "prepareArabicSearchQuery" /\ returned = << >>
    /\ returned' = << prepareArabicSearchQuery(argument) >>
    /\ UNCHANGED << runVars, call, argument >>

NextQuery == PrepareQuery

SpecQuery == InitQuery /\ [][NextQuery]_vars

\* 0010-arabic-fts-enhancement.migration.ts:30-45 (insert), 56-71 (update),
\* 90-105 (existing rows): the chain of REPLACE calls, innermost first
contentNormalized(content) ==
    ApplyRules(<< Characters({"alef_madda"}, "alef"),
                  Characters({"alef_hamza"}, "alef"),
                  Characters({"alef_hamza_below"}, "alef"),
                  Characters({"alef_maksura"}, "yeh"),
                  Characters({"teh_marbuta"}, "heh"),
                  Remove({"hamza"}) >>, content)

\* the words that are indexed and searched: every word of up to MaxWordLen
\* characters over a plain letter and the forms the two sides unify
WordAlphabet ==
    {"seen", "alef_hamza", "alef_maksura", "teh_marbuta", "heh", "hamza", "waw_hamza"}
IndexedWords == UNION { [1..n -> WordAlphabet] : n \in 1..MaxWordLen }

InitIndex ==
    /\ NoRun
    /\ call = "documents_fts_arabic"
    /\ argument \in IndexedWords
    /\ returned = << >>

\* trigger_documents_fts_arabic_insert / _update: content_normalized is written
WriteContentNormalized ==
    /\ call = "documents_fts_arabic" /\ returned = << >>
    /\ returned' = << contentNormalized(argument) >>
    /\ UNCHANGED << runVars, call, argument >>

\* the same word comes in a query: normalizeArabicForSearch(query)
NormalizeQuery ==
    /\ call = "documents_fts_arabic" /\ Len(returned) = 1
    /\ returned' = Append(returned, normalizeArabicForSearch(argument))
    /\ UNCHANGED << runVars, call, argument >>

NextIndex == WriteContentNormalized \/ NormalizeQuery

SpecIndex == InitIndex /\ [][NextIndex]_vars

(***************************************************************************)
(* Properties.                                                             *)
(***************************************************************************)
Done == pc = "done"

\* the step ends an attempt (its await resolved or rejected for good)
Completes == event' \in {"recognized", "failed"} /\ <<stage, idx, pc>>' # <<stage, idx, pc>>
FailureStep == Completes /\ event' = "failed"
RecognizedStep == Completes /\ event' = "recognized"

\* the step starts another attempt
BeginsAttempt == <<stage, idx>>' # <<stage, idx>> /\ pc' # "done"

\* the confidence of the result a resolved attempt is about to hand back
HeldConfidence == OrZero(pending.report)

\* C1: when a run ends, by returning or by throwing, no engine worker that
\* was created is left unterminated, whatever calls failed on the way.
C1_NoEngineLeak ==
    (Done /\ entry \in {"performAdvancedArabicOCR", "performMultiVariantArabicOCR",
                        "performComprehensiveArabicOCR", "extractTextFromImage"})
        => live = 0

\* C2: at every point of a run at most one engine worker is live.
C2_AtMostOneLiveWorker == live <= 1

\* C3: extractTextFromImage always completes by returning a string; no
\* failure of preprocessing, worker creation, parameter setting or
\* recognition makes it throw.
C3_ExtractionNeverThrows ==
    entry \in {"extractTextFromImage", "extractTextFromImageLegacy"}
        => outcome.kind # "threw"

\* the attempt the stage order calls for after the one that has just ended
\* (lines 221, 262, 285, 288, 520), or the function's return
C4_FollowsInOrder ==
    CASE stage = "variants" ->
            IF idx < Min(maxAttempts, Len(PREPROCESSING_STRATEGIES))
            THEN stage' = "variants" /\ idx' = idx + 1 /\ pc' = "preprocess"
            ELSE stage' = "original" /\ pc' = "createWorker"
      [] stage = "original" ->
            IF isArabicOCR
            THEN stage' = "psm" /\ idx' = 1 /\ pc' = "createWorker"
            ELSE Done' /\ outcome'.kind = "returned"
      [] stage = "psm" ->
            IF idx < Len(psmModes)
            THEN stage' = "psm" /\ idx' = idx + 1 /\ pc' = "createWorker"
            ELSE Done' /\ outcome'.kind = "returned"
      [] stage = "multiVariant" ->
            IF idx < Len(variants)
            THEN stage' = "multiVariant" /\ idx' = idx + 1 /\ pc' = "createWorker"
            ELSE IF entry = "performMultiVariantArabicOCR"
                 THEN Done' /\ outcome'.kind = "returned"
                 ELSE advancedResult' = bestResult /\ ~Done'
\* C4: in performAdvancedArabicOCR and performMultiVariantArabicOCR a failed
\* attempt leaves bestResult as it was, does not make the run throw, and is
\* followed by exactly the attempt the stage order calls for next: the next
\* variant, the original image after the last variant, the first
\* segmentation mode after the original image (Arabic only), the next
\* segmentation mode; after the last attempt the function returns.
C4_FailureIsolation ==
    [][ (FailureStep /\ stage \in SingleStages)
            => /\ bestResult' = bestResult
               /\ outcome'.kind # "threw"
               /\ C4_FollowsInOrder ]_vars
\* a segmentation-mode attempt has failed after an earlier attempt had set
\* bestResult, and the next segmentation mode is being tried
C4_Witness ==
    /\ stage = "psm" /\ idx > 1 /\ pc = "createWorker" /\ event = "failed"
    /\ bestResult.confidence > 0

\* the threshold the preprocessed-variant stage compares a result with
VariantThreshold ==
    CASE stage = "variants" -> AdvancedThreshold
      [] stage = "multiVariant" -> MultiVariantThreshold
      [] stage = "legacyVariants" -> AdvancedOCRBreakConfidence
\* C5: once an attempt of a preprocessed-variant stage has yielded a
\* confidence that meets or exceeds the stage's threshold (equality
\* included), the run is over: no further attempt of any stage is executed.
C5_EarlyExitAcrossStages ==
    [][ ( /\ RecognizedStep
          /\ stage \in {"variants", "multiVariant", "legacyVariants"}
          /\ HeldConfidence >= VariantThreshold ) => Done' ]_vars

\* C6: once a language-combination attempt has reached the threshold, no
\* later language combination and no engine mode is tried.
C6_EarlyExitInFallback ==
    [][ ( /\ RecognizedStep
          /\ stage = "languages"
          /\ HeldConfidence >= ExtractThreshold )
            => stage' \notin {"languages", "oem"} ]_vars

\* the function whose local `bestResult` the stage reads and writes
Accumulator(st) ==
    CASE st \in {"variants", "original", "psm"} -> "performAdvancedArabicOCR"
      [] st = "multiVariant" -> "performMultiVariantArabicOCR"
      [] st = "legacyVariants" -> "performAdvancedOCR"
      [] st = "legacyLanguages" -> "performFallbackOCR"
      [] OTHER -> "none"
\* C7: while one accumulator lives (from the first attempt of its function
\* to the function's return) no step lowers bestResult.confidence.
C7_BestConfidenceNonDecreasing ==
    [][ ( /\ Accumulator(stage) # "none"
          /\ (Done' \/ Accumulator(stage') = Accumulator(stage)) )
            => bestResult'.confidence >= bestResult.confidence ]_vars
\* an attempt has come back with a confidence below the best so far, and the
\* earlier, better result is still the accumulator's
C7_Witness ==
    /\ stage = "psm" /\ idx = 2 /\ event = "recognized"
    /\ bestResult.strategy = "original" /\ bestResult.confidence = 60


\* (a) the in-loop accumulator: replaced by a strictly better result only
C8_Accumulator ==
    (RecognizedStep /\ stage \in SingleStages)
        => IF HeldConfidence > bestResult.confidence
           THEN bestResult'.confidence = HeldConfidence
                /\ bestResult'.strategy # bestResult.strategy
           ELSE bestResult' = bestResult
\* the six results as the selection finds them: those of the earlier
\* attempts and the one of the attempt this step ends
C8_Collected ==
    Append(allResults,
           IF event' = "recognized"
           THEN [text |-> oemModes[idx], confidence |-> HeldConfidence,
                 method |-> oemModes[idx], success |-> TRUE]
           ELSE [text |-> "", confidence |-> 0,
                 method |-> oemModes[idx], success |-> FALSE])
\* (b) the best-of selection: the earliest of the results of highest confidence
C8_EarliestBest(results, chosen) ==
    \E i \in 1..Len(results) :
        /\ chosen = results[i]
        /\ chosen.success /\ chosen.confidence > 0
        /\ \A j \in 1..Len(results) :
              (results[j].success /\ j < i)
                  => results[j].confidence < chosen.confidence
        /\ \A j \in 1..Len(results) :
              (results[j].success /\ j > i)
                  => results[j].confidence <= chosen.confidence
C8_Selection ==
    (Completes /\ stage = "oem" /\ idx = Len(oemModes))
        => IF \E i \in 1..Len(C8_Collected) :
                 C8_Collected[i].success /\ C8_Collected[i].confidence > 0
           THEN C8_EarliestBest(C8_Collected, fallbackResult')
           ELSE fallbackResult'.method = "all_failed"
\* (c) the fallback result is returned only when strictly better
C8_Choice ==
    /\ (Done /\ entry = "extractTextFromImage" /\ outcome.source = "fallback")
          => fallbackResult.confidence > advancedResult.confidence
    /\ (Done /\ entry = "extractTextFromImageLegacy" /\ outcome.source = "fallback")
          => bestResult.confidence > advancedResult.confidence
\* C8: a result replaces the best one only when its confidence is strictly
\* greater; on equal confidence the earlier one is kept.  (a) the in-loop
\* accumulator, (b) the best-of selection of performComprehensiveArabicOCR,
\* (c) the choice between the advanced and the fallback result.
C8_TieBreak == []C8_Choice /\ [][C8_Accumulator /\ C8_Selection]_vars
\* the fallback result ties with the advanced result, and the advanced
\* (earlier) text is what extractTextFromImage returned
C8_Witness ==
    /\ Done /\ entry = "extractTextFromImage" /\ outcome.source = "advanced"
    /\ fallbackResult.success
    /\ fallbackResult.confidence = advancedResult.confidence
    /\ advancedResult.confidence > 0

\* C9: when every attempt of every stage has failed, performAdvancedArabicOCR
\* and performMultiVariantArabicOCR return (they do not throw) the result
\* with text '', confidence 0 and strategy 'none'.
C9_ExhaustionIsNormal ==
    ( /\ Done
      /\ entry \in {"performAdvancedArabicOCR", "performMultiVariantArabicOCR"}
      /\ ~anyRecognized )
        => /\ outcome = [kind |-> "returned", text |-> "", source |-> "none"]
           /\ bestResult = InitialResult
\* performAdvancedArabicOCR has gone through every stage, the last
\* segmentation mode has failed like every attempt before it
C9_Witness ==
    /\ Done /\ entry = "performAdvancedArabicOCR" /\ ~anyRecognized
    /\ event = "failed" /\ isArabicOCR /\ enableAdvancedPreprocessing
    /\ maxAttempts >= Len(PREPROCESSING_STRATEGIES)
    /\ outcome.kind = "returned"

\* C10: once the caller has raised its cancellation / deadline signal, the
\* orchestrator starts no further attempt or stage.
C10_NoAttemptAfterCancel == [][ cancelRequested => ~BeginsAttempt ]_vars

\* the step is a createWorker call of performSingleOCRAttempt or of
\* createOCRWorker that rejects
CreateRejected ==
    /\ pc \in {"createWorker", "retryCreateWorker"}
    /\ stage \in SingleStages \cup LegacyStages
    /\ live' = live

\* C11: when creating the engine worker for an attempt is rejected (the
\* languages asked for are not the default alone), the creation is retried
\* exactly once with the default language; when that
\* retry is rejected too the attempt has failed and the run does not throw.
C11_LanguageFallbackRetry ==
    [][ /\ (CreateRejected /\ pc = "createWorker" /\ languages # << "eng" >>)
            => (pc' = "retryCreateWorker" /\ stage' = stage /\ idx' = idx)
        /\ (CreateRejected /\ pc = "retryCreateWorker")
            => (event' = "failed" /\ outcome'.kind # "threw") ]_vars

\* C12: whatever becomes of the transforms of a variant, recognition is
\* attempted for that variant (on the unmodified image when a transform has
\* failed), and the run is not aborted.
C12_PreprocessingFallback ==
    [][ (pc = "preprocess" /\ stage \in {"variants", "legacyVariants"})
            => /\ pc' = "createWorker" /\ stage' = stage /\ idx' = idx
               /\ image' \in {"raw", "preprocessed"}
               /\ outcome'.kind = "running" ]_vars

\* the results a run holds
HeldResults ==
    {bestResult.confidence, advancedResult.confidence, fallbackResult.confidence}
        \cup {allResults[i].confidence : i \in 1..Len(allResults)}

\* C15: every confidence a run holds, BestResult.confidence included, is
\* within 0..100, whatever the engine reports.
C15_ConfidenceInRange == \A c \in HeldResults : c >= 0 /\ c <= 100

\* C17: the variant loop of performAdvancedArabicOCR, and the variant loop of
\* performMultiVariantArabicOCR when extractTextFromImage calls it with
\* maxAttempts: 3, makes no more recognition attempts than maxAttempts.
C17_VariantAttemptsBounded ==
    ( /\ entry \in {"performAdvancedArabicOCR", "extractTextFromImage"}
      /\ stage \in {"variants", "multiVariant"}
      /\ pc \in {"createWorker", "setParameters", "recognize", "terminate"} )
        => idx <= maxAttempts

\* the stages of the fixed attempt sequence and the stage that follows each
OrderedStages == {"variants", "multiVariant", "original", "psm", "languages", "oem"}
FollowingStage(st) ==
    CASE st = "variants" -> "original"
      [] st = "original" -> "psm"
      [] st = "multiVariant" -> "languages"
      [] st = "languages" -> "oem"
      [] OTHER -> "none"
\* the number of attempts the stage has in this run
StageLength(st) ==
    CASE st = "variants" -> Min(maxAttempts, Len(PREPROCESSING_STRATEGIES))
      [] st = "original" -> 1
      [] st = "psm" -> Len(psmModes)
      [] st = "multiVariant" -> Len(variants)
      [] st = "languages" -> Len(languageCombinations)
      [] st = "oem" -> Len(oemModes)
      [] OTHER -> 0

C19_NoArabicTakesPriority ==
    (call = "scoreArabicTextQuality" /\ returned # << >> /\ ~containsArabic(argument))
        => returned[1] = [score |-> 0, issues |-> << "No Arabic text detected" >>,
                          suggestions |-> << >>]
\* a text without Arabic has been scored that the other checks would have
\* penalised twice (it is short and has no Arabic word)
C19_Witness ==
    /\ call = "scoreArabicTextQuality" /\ returned # << >>
    /\ ~containsArabic(argument) /\ Len(argument) > 0
    /\ Len(ScoreByPenalties(argument).issues) = 2

\* the penalties the checks add up to for the text
TotalPenalty(t) ==
    (IF CountMatches("brokenWord", t, 1) > 3
        THEN 5 * CountMatches("brokenWord", t, 1) ELSE 0)
    + (IF CountMatches("punctuation", t, 1) > 2
          THEN 3 * CountMatches("punctuation", t, 1) ELSE 0)
    + (IF CountMatches("mixedScript", t, 1) > 2
          THEN 2 * CountMatches("mixedScript", t, 1) ELSE 0)
    + (IF Len(Trim(t)) < 10 THEN 20 ELSE 0)

\* C20: the score scoreArabicTextQuality returns is within 0..100; it is 100
\* less the penalties where that is not negative, and 0 where the penalties
\* exceed 100.
C20_ScoreClamped ==
    (call = "scoreArabicTextQuality" /\ returned # << >>)
        => /\ returned[1].score >= 0 /\ returned[1].score <= 100
           /\ containsArabic(argument)
                 => returned[1].score =
                        (IF TotalPenalty(argument) >= 100 THEN 0
                         ELSE 100 - TotalPenalty(argument))
\* a text with more than twenty broken words has been scored 0
C20_Witness ==
    /\ call = "scoreArabicTextQuality" /\ returned # << >>
    /\ CountMatches("brokenWord", argument, 1) > 20
    /\ returned[1].score = 0

\* C14: an image below the minimum width or height of the function that
\* processes it reaches the steps after the scaling with at least the
\* minimum width and the minimum height, whatever the variant.
C14_MinimumSizeUpscaling ==
    (/\ call \in {"preprocessImage", "preprocessImageForOCR", "advancedArabicPreprocessing"}
     /\ returned # << >> /\ returned[1].reached
     /\ \/ argument.metadata.width < MinimumOf(call).width
        \/ argument.metadata.height < MinimumOf(call).height)
        => /\ returned[1].width >= MinimumOf(call).width
           /\ returned[1].height >= MinimumOf(call).height

\* C13: cleaning a text that has been cleaned changes nothing: the clean-up
\* applied twice gives what it gives applied once.
C13_EnhanceIdempotent ==
    (call = "postprocessArabicOCR" /\ Len(returned) = 2) => returned[2] = returned[1]

\* the clean-up with the step that throws left out: the steps before it
\* and the steps after it (the steps of the enhancer when it cannot be loaded)
StagesKept(text, fault) ==
    LET step2 == fixCommonArabicOCRErrors(normalizeArabicText(text))
        step3 == IF fault \in {"require", "enhanceArabicTextQuality"} THEN step2
                 ELSE enhanceArabicTextQuality(step2)
    IN  IF fault \in {"require", "reconstructArabicText"} THEN step3
        ELSE reconstructArabicText(step3)

\* C18: when a step of the clean-up throws, the caller still gets a text,
\* and it is the text of the steps that did not throw.
C18_PartialProgressKept ==
    (/\ call = "performSingleOCRAttempt" /\ returned # << >>
     /\ containsArabic(argument.text) /\ argument.fault # "none")
        => returned[1] = StagesKept(argument.text, argument.fault)

\* the step with which performAdvancedArabicOCR leaves its preprocessed-
\* variant stage: the start of a run that skips the stage, or the end of the
\* stage's last attempt
LeavesVariantStage ==
    /\ entry = "performAdvancedArabicOCR"
    /\ pc = "start" \/ stage = "variants"
    /\ stage' # "variants"
\* C21: with enableAdvancedPreprocessing false no attempt on a preprocessed
\* variant is made; and when the variant stage is left (or skipped), the
\* attempt on the original image is made exactly if the best confidence so
\* far is below the threshold.
C21_StageSkipping ==
    /\ []((entry = "performAdvancedArabicOCR" /\ ~enableAdvancedPreprocessing)
            => stage # "variants")
    /\ [][ LeavesVariantStage
            => ((stage' = "original" /\ pc' = "createWorker")
                    <=> bestResult'.confidence < AdvancedThreshold) ]_vars
\* preprocessing is disabled for an Arabic run, and the run is at the first
\* await of its attempt on the original image
C21_Witness ==
    /\ entry = "performAdvancedArabicOCR" /\ isArabicOCR
    /\ ~enableAdvancedPreprocessing
    /\ stage = "original" /\ pc = "createWorker" /\ ~anyRecognized /\ event = "none"

\* the attempts of the run that returned a result, in their order
Completed == SelectSeq(returned, LAMBDA a : a.success)
\* the greatest confidence among them, 0 when there is none
MaxCompleted ==
    IF Completed = << >> THEN 0
    ELSE CHOOSE c \in {Completed[i].confidence : i \in 1..Len(Completed)} :
            \A i \in 1..Len(Completed) : Completed[i].confidence <= c
\* the earliest of them with that confidence
EarliestBest ==
    Completed[CHOOSE i \in 1..Len(Completed) :
                /\ Completed[i].confidence = MaxCompleted
                /\ \A j \in 1..(i - 1) : Completed[j].confidence < MaxCompleted]
\* C26: what performAdvancedArabicOCR returns has the greatest confidence of
\* the attempts that returned a result (0 when none did) and the text and
\* strategy of the earliest attempt with that confidence; when that
\* confidence is 0 it is the initial result, text '' and strategy 'none'.
C26_ReturnsEarliestBest ==
    (entry = "performAdvancedArabicOCR" /\ Done)
        => /\ outcome.kind = "returned"
           /\ bestResult.confidence = MaxCompleted
           /\ IF MaxCompleted = 0
              THEN bestResult = InitialResult /\ outcome.text = ""
              ELSE /\ bestResult.strategy = EarliestBest.strategy
                   /\ outcome.text = bestResult.text
                   /\ outcome.source = EarliestBest.strategy
\* the run has returned; two attempts had the greatest confidence, and an
\* attempt had returned a text with confidence 0
C26_Witness ==
    /\ entry = "performAdvancedArabicOCR" /\ Done
    /\ MaxCompleted > 0
    /\ \E i, j \in 1..Len(Completed) :
          i < j /\ Completed[i].confidence = MaxCompleted
                /\ Completed[j].confidence = MaxCompleted
    /\ \E i \in 1..Len(Completed) : Completed[i].confidence = 0

\* C27: a run of performAdvancedArabicOCR makes at most
\* min(maxAttempts, 4) + 1 + 4 recognition attempts, a run of
\* performComprehensiveArabicOCR has made exactly 6 when it returns, no
\* attempt is made twice, and, every engine call returning or throwing, the
\* run reaches its return.  The record of attempts only grows, so what holds
\* of it at the return held of it all along.
AdvancedAttemptBound ==
    Min(maxAttempts, Len(PREPROCESSING_STRATEGIES)) + 1 + Len(psmModes)
ComprehensiveAttempts == Len(languageCombinations) + Len(oemModes)
NoAttemptRepeated ==
    \A i, j \in 1..Len(returned) :
        returned[i].strategy = returned[j].strategy => i = j
AttemptsWithinBound ==
    IF entry = "performAdvancedArabicOCR"
    THEN Len(returned) <= AdvancedAttemptBound
    ELSE Len(returned) = ComprehensiveAttempts
C27_BoundedAttempts ==
    <>(/\ Done /\ outcome.kind = "returned"
       /\ AttemptsWithinBound /\ NoAttemptRepeated)
C27_Witness ==
    /\ entry = "performAdvancedArabicOCR" /\ Done
    /\ options.maxAttempts = Given(MaxAttemptsOption)
    /\ Len(returned) = AdvancedAttemptBound
    /\ \E i \in 1..Len(returned) : ~returned[i].success

\* C29: performComprehensiveArabicOCR returns success = true only with a
\* confidence above 0 that is the greatest over its six attempts, and it
\* returns { text: '', confidence: 0, method: 'all_failed', success: false }
\* exactly when no attempt completed with a confidence above 0.
AllFailed ==
    [text |-> "", confidence |-> 0, method |-> "all_failed", success |-> FALSE]
C29_ComprehensiveResult ==
    (entry = "performComprehensiveArabicOCR" /\ Done)
        => /\ outcome.kind = "returned"
           /\ fallbackResult.success
                => /\ fallbackResult.confidence > 0
                   /\ fallbackResult.confidence = MaxCompleted
                   /\ \A i \in 1..Len(returned) :
                         returned[i].confidence <= fallbackResult.confidence
           /\ (fallbackResult = AllFailed) <=> (MaxCompleted = 0)
           /\ fallbackResult.success <=> (MaxCompleted > 0)
           /\ outcome.source = fallbackResult.method
C29_Witness ==
    /\ entry = "performComprehensiveArabicOCR" /\ Done
    /\ fallbackResult.success
    /\ Len(returned) = ComprehensiveAttempts
    /\ \E i, j, k \in 1..Len(returned) :
          /\ ~returned[i].success
          /\ returned[j].success /\ returned[j].confidence = 0
          /\ returned[k].confidence = MaxCompleted /\ k > 1
          /\ returned[1].confidence < MaxCompleted

\* C28: on the Arabic path of extractTextFromImage the fallback is run
\* exactly when the advanced confidence is below 75; the text returned is
\* that of the result with the higher confidence, the advanced one winning a
\* tie when its confidence is above 0; standard OCR is reached only when both
\* confidences are 0; and the branch that returns the fallback text when the
\* advanced confidence is 0 and the fallback did not beat it is never taken.
AdvancedRan == advancedResult.strategy # "unset"
FallbackRan == fallbackResult.method # "unset"
ThirdBranch ==
    /\ ~(fallbackResult.success
         /\ fallbackResult.confidence > advancedResult.confidence)
    /\ ~(advancedResult.confidence > 0)
    /\ fallbackResult.success
C28_FinalSelection ==
    (entry = "extractTextFromImage" /\ isArabicOCR /\ AdvancedRan)
        => /\ (stage \in FallbackStages \/ FallbackRan)
                <=> advancedResult.confidence < ExtractAcceptConfidence
           /\ (Done /\ ~FallbackRan)
                => outcome = [kind |-> "returned", text |-> advancedResult.text,
                              source |-> "advanced"]
           /\ FallbackRan
                => /\ Done \/ stage = "standard"
                   /\ ~ThirdBranch
                   /\ (stage = "standard" \/ outcome.source \in {"standard", "exception"})
                        <=> (advancedResult.confidence = 0 /\ fallbackResult.confidence = 0)
                   /\ outcome.source = "fallback"
                        => /\ fallbackResult.confidence > advancedResult.confidence
                           /\ outcome.text = fallbackResult.text
                   /\ outcome.source = "advanced"
                        => /\ advancedResult.confidence > 0
                           /\ advancedResult.confidence >= fallbackResult.confidence
                           /\ outcome.text = advancedResult.text
C28_Witness ==
    /\ entry = "extractTextFromImage" /\ isArabicOCR /\ Done
    /\ FallbackRan /\ fallbackResult.success
    /\ fallbackResult.confidence = advancedResult.confidence
    /\ outcome.source = "advanced"

\* C30: when worker.terminate() throws in performSingleOCRAttempt, an attempt
\* whose recognition succeeded still hands back its text and confidence (the
\* caller takes it into its accumulator as usual) and an attempt whose
\* recognition failed still fails with that failure.
TerminateRejects ==
    /\ pc = "terminate" /\ stage \in SingleStages
    /\ terminateFaults' # terminateFaults
C30_ReleaseFailureIsSilent ==
    [][ TerminateRejects
          => /\ pending.kind = "return"
                  => /\ event' = "recognized"
                     /\ anyRecognized'
                     /\ bestResult' = UpdateBest(bestResult,
                            AttemptResult(AttemptName(Run), pending.report))
             /\ pending.kind # "return"
                  => /\ event' = "failed"
                     /\ bestResult' = bestResult
                     /\ anyRecognized' = anyRecognized
             /\ outcome'.kind # "threw" ]_vars
C30_Witness ==
    /\ entry = "performAdvancedArabicOCR"
    /\ stage = "variants" /\ idx = 2 /\ pc = "preprocess"
    /\ terminateFaults = 1 /\ live = 1
    /\ event = "recognized" /\ bestResult.confidence > 0

\* C22: digit correction respects the script context: a text without a
\* character of the target script keeps its digits, and no Latin letter
\* (o, O, l) is ever rewritten to a digit.
RECURSIVE CountIn(_, _)
CountIn(t, class) ==
    IF t = << >> THEN 0
    ELSE (IF Head(t) \in class THEN 1 ELSE 0) + CountIn(Tail(t), class)
C22_DigitContext ==
    (call = "fixCommonArabicOCRErrors" /\ returned # << >>)
        => /\ CountIn(returned[1], LatinLetters) = CountIn(argument, LatinLetters)
           /\ ~containsArabic(argument) => returned[1] = Trim(argument)

\* C23: normalizeArabicForSearch is idempotent: applied to its own result it
\* changes nothing, and its result has one form of alef, yeh, teh marbuta
\* and hamza, no diacritic, tatweel or Arabic punctuation, single spaces,
\* no space at either end and no capital.
InSearchForm(t) ==
    /\ \A i \in 1..Len(t) :
          /\ t[i] \notin AlefForms \cup HamzaCarriers \cup Diacritics \cup SearchPunctuation
          /\ t[i] \notin {"alef_maksura", "heh", "tatweel", "A", "O", "nl"}
          /\ (i < Len(t) /\ t[i] = "sp") => t[i + 1] # "sp"
    /\ t # << >> => (t[1] # "sp" /\ t[Len(t)] # "sp")
C23_NormalizeIdempotent ==
    call = "normalizeArabicForSearch"
        => /\ Len(returned) >= 1 => InSearchForm(returned[1])
           /\ Len(returned) = 2 => returned[2] = returned[1]
C23_Witness ==
    /\ call = "normalizeArabicForSearch" /\ Len(returned) = 2
    /\ Len(argument) = MaxSearchLen /\ argument[1] = "alef_hamza"
    /\ argument[2] = "arabic_comma"
    /\ returned[1] = << "alef" >>

\* C25: the form of a word written to content_normalized is the form
\* normalizeArabicForSearch gives the same word in a query.
C25_IndexAgreesWithQuery ==
    (call = "documents_fts_arabic" /\ Len(returned) = 2) => returned[1] = returned[2]

\* C24: for a query of one Arabic word prepareArabicSearchQuery returns
\* "token" OR token*, followed by the same two clauses for the word without
\* its prefix when that differs and has at least 2 characters, and no AND;
\* for an empty or whitespace-only query it returns the empty string.
SingleArabicWord(query) ==
    query # << >> /\ \A i \in 1..Len(query) : query[i] \in LetterRange \ {"tatweel"}
SingleWordExpression(query) ==
    LET token == normalizeArabicForSearch(query)
        p == withoutPrefixes(token)
    IN  Quoted(token) \o OrWord \o Starred(token)
        \o (IF p # token /\ Len(p) >= 2
            THEN OrWord \o Quoted(p) \o OrWord \o Starred(p) ELSE << >>)
HasAnd(expression) ==
    \E i \in 1..Len(expression) :
        i + Len(AndWord) - 1 <= Len(expression)
        /\ SubSeq(expression, i, i + Len(AndWord) - 1) = AndWord
C24_SingleWordQuery ==
    (call = "prepareArabicSearchQuery" /\ returned # << >>)
        => /\ SingleArabicWord(argument)
                => /\ returned[1] = SingleWordExpression(argument)
                   /\ ~HasAnd(returned[1])
           /\ (\A i \in 1..Len(argument) : argument[i] = "sp") => returned[1] = << >>

====
